---- MODULE Spec2Model ----
(***************************************************************************)
(* Filter-expression engine of the Resident Advisor events scraper.        *)
(*                                                                         *)
(* A Python string is modelled as a sequence of symbols.  A symbol is a    *)
(* TLC string standing for one indivisible piece of text: the separators   *)
(* ":", "," and " " are single characters, every other symbol is a run of  *)
(* characters with no separator in it ("genre", "AND", "x", "15").         *)
(* Sub-string, prefix and suffix tests work on whole symbols.              *)
(***************************************************************************)
EXTENDS Integers, Sequences, FiniteSets, TLC

VARIABLES
    cls,              \* class of the plan object
    expression,       \* self.expression, the constructor's argument
    graphql_filters,  \* self.graphql_filters: field -> descriptor
    client_filters,   \* self.client_filters: list of clause records
    events,           \* records handed to apply_client_filters
    filtered,         \* list returned by apply_client_filters
    event_values,     \* _apply_filter_operator argument
    operator,         \* _apply_filter_operator argument
    filter_values,    \* _apply_filter_operator argument
    matches,          \* value returned by _apply_filter_operator
    pc,               \* position of the caller
    fetcher,          \* EnhancedEventFetcher: the constructor's arguments
    payload,          \* self.payload["variables"]: filters and page
    upstream,         \* how the upstream API answers, page by page
    frames,           \* fetch_all_events calls: caller -> local variables
    batch,            \* batch_events_v3: the request being answered
    cache             \* area_cache.py: memory, database, connections

vars == <<cls, expression, graphql_filters, client_filters, events, filtered,
          event_values, operator, filter_values, matches, pc,
          fetcher, payload, upstream, frames, batch, cache>>

fetchVars == <<fetcher, payload, upstream, frames>>

serviceVars == <<batch, cache>>

-----------------------------------------------------------------------------
(* Bounds *)

MaxItems == 3
MaxClauses == 2
MaxEvents == 2
MaxEventValues == 2
MaxOperands == 2
MaxBatch == 2
MaxRefreshes == 2

-----------------------------------------------------------------------------
(* Strings *)

S(x) == <<x>>

EmptyFcn == [x \in {} |-> x]

\* str.lower() on one symbol; symbols without an upper-case letter map to
\* themselves
LowerSym(c) ==
    CASE c = "X" -> "x"
      [] c = "Y" -> "y"
      [] c = "AND" -> "and"
      [] c = "OR" -> "or"
      [] c = "NOT" -> "not"
      [] OTHER -> c

\* str.upper() on one symbol
UpperSym(c) ==
    CASE c = "x" -> "X"
      [] c = "y" -> "Y"
      [] c = "artist" -> "ARTIST"
      [] c = "event" -> "EVENT"
      [] c = "bogus" -> "BOGUS"
      [] c = "techno" -> "TECHNO"
      [] c = "house" -> "HOUSE"
      [] OTHER -> c

RECURSIVE Lower(_)
\* str.lower()
Lower(s) == IF s = <<>> THEN <<>> ELSE <<LowerSym(Head(s))>> \o Lower(Tail(s))

RECURSIVE Upper(_)
\* str.upper()
Upper(s) == IF s = <<>> THEN <<>> ELSE <<UpperSym(Head(s))>> \o Upper(Tail(s))

RECURSIVE SkipWs(_, _)
\* first index >= i of s that holds no white space, Len(s)+1 if none
SkipWs(s, i) ==
    IF i <= Len(s) /\ s[i] = " " THEN SkipWs(s, i + 1) ELSE i

RECURSIVE SkipWsBack(_, _)
\* last index <= i of s that holds no white space, 0 if none
SkipWsBack(s, i) ==
    IF i >= 1 /\ s[i] = " " THEN SkipWsBack(s, i - 1) ELSE i

\* str.strip()
Strip(s) == SubSeq(s, SkipWs(s, 1), SkipWsBack(s, Len(s)))

RECURSIVE IndexOf(_, _, _)
\* first index >= i of s holding the symbol c, 0 if none
IndexOf(s, c, i) ==
    IF i > Len(s) THEN 0
    ELSE IF s[i] = c THEN i
    ELSE IndexOf(s, c, i + 1)

\* as Contains, with the test left out
ContainsUntested(s, c) == TRUE

\* c in s
Contains(s, c) == \E i \in DOMAIN s : s[i] = c

RECURSIVE SplitOn(_, _)
\* s.split(c): always at least one piece
SplitOn(s, c) ==
    LET k == IndexOf(s, c, 1)
    IN  IF k = 0 THEN <<s>>
        ELSE <<SubSeq(s, 1, k - 1)>> \o SplitOn(SubSeq(s, k + 1, Len(s)), c)

\* a in b for Python strings
IsSubstring(a, b) ==
    \E i \in 1..(Len(b) + 1) :
        /\ i + Len(a) - 1 <= Len(b)
        /\ SubSeq(b, i, i + Len(a) - 1) = a

\* b.startswith(a)
StartsWith(b, a) == Len(a) <= Len(b) /\ SubSeq(b, 1, Len(a)) = a

\* b.endswith(a)
EndsWith(b, a) ==
    Len(a) <= Len(b) /\ SubSeq(b, Len(b) - Len(a) + 1, Len(b)) = a

RECURSIVE Join(_, _)
\* sep.join(list)
Join(list, sep) ==
    IF list = <<>> THEN <<>>
    ELSE IF Len(list) = 1 THEN list[1]
    ELSE list[1] \o sep \o Join(Tail(list), sep)

-----------------------------------------------------------------------------
(* re.split(r'\s+(AND|OR|NOT)\s+', expression) *)

LogicalOps == {"AND", "OR", "NOT"}

\* the pattern matches with its first white-space character at index k
MatchAt(s, k) ==
    /\ k <= Len(s)
    /\ s[k] = " "
    /\ LET j == SkipWs(s, k)
       IN  /\ j + 1 <= Len(s)
           /\ s[j] \in LogicalOps
           /\ s[j + 1] = " "

RECURSIVE FindMatch(_, _)
\* start of the leftmost match at or after k, 0 if none
FindMatch(s, k) ==
    IF k > Len(s) THEN 0
    ELSE IF MatchAt(s, k) THEN k
    ELSE FindMatch(s, k + 1)

RECURSIVE ReSplitFrom(_, _)
ReSplitFrom(s, pos) ==
    LET k == FindMatch(s, pos)
    IN  IF k = 0 THEN <<SubSeq(s, pos, Len(s))>>
        ELSE LET j == SkipWs(s, k)
                 e == SkipWs(s, j + 1)
             IN  <<SubSeq(s, pos, k - 1), S(s[j])>> \o ReSplitFrom(s, e)

ReSplit(s) == ReSplitFrom(s, 1)

-----------------------------------------------------------------------------
(* Plan construction: AdvancedFilterExpression and SearchFilterExpression *)

Advanced == "AdvancedFilterExpression"
Search == "SearchFilterExpression"
AdvancedSearch == "AdvancedSearchFilterExpression"
Basic == "FilterExpression"

\* as DictSet, with a key that is present keeping its value
DictSetDefault(d, k, v) ==
    [x \in (DOMAIN d) \cup {k} |-> IF x \in DOMAIN d THEN d[x] ELSE v]

\* graphql_filters[field] = descriptor
DictSet(d, k, v) == [x \in (DOMAIN d) \cup {k} |-> IF x = k THEN v ELSE d[x]]

\* st is the object under construction:
\*   gf = graphql_filters, cf = client_filters, raised = an exception left
\*   the constructor

\* as CanHandleInGraphql, with 'has' taken for an operator of the upstream API
CanHandleInGraphqlHas(field, op, values) ==
    op \in {S("eq"), S("any"), S("has")}

CanHandleInGraphql(field, op, values) ==
    IF op \in {S("eq"), S("any")} THEN TRUE
    ELSE IF op \in {S("in"), S("has"), S("contains_all"), S("contains_any"),
                    S("all"), S("gt"), S("lt"), S("gte"), S("lte"),
                    S("between"), S("starts"), S("ends"), S("nin")}
         THEN FALSE
    ELSE FALSE

RECURSIVE StripEach(_)
\* [v.strip() for v in list]
StripEach(list) ==
    IF list = <<>> THEN <<>>
    ELSE <<Strip(Head(list))>> \o StripEach(Tail(list))

\* as AddGraphqlFilter, with the value of eq normalised as _add_type_filter
\* normalises it
AddGraphqlFilterUpper(st, field, op, values) ==
    IF op = S("eq")
    THEN [st EXCEPT !.gf = DictSet(st.gf, field, "eq" :> Upper(Strip(values)))]
    ELSE IF op = S("any")
    THEN [st EXCEPT !.gf =
              DictSet(st.gf, field,
                      "any" :> StripEach(SplitOn(values, ",")))]
    ELSE st

AddGraphqlFilter(st, field, op, values) ==
    IF op = S("eq")
    THEN [st EXCEPT !.gf = DictSet(st.gf, field, "eq" :> values)]
    ELSE IF op = S("any")
    THEN [st EXCEPT !.gf =
              DictSet(st.gf, field, "any" :> StripEach(SplitOn(values, ",")))]
    ELSE st

AddClientFilter(st, field, op, values, logical_op) ==
    [st EXCEPT !.cf = Append(st.cf,
        [field |-> field,
         operator |-> op,
         values |-> IF Contains(values, ",") THEN SplitOn(values, ",")
                    ELSE <<values>>,
         logical_op |-> logical_op])]

ValidIndices == {S("ARTIST"), S("LABEL"), S("EVENT"), S("CLUB"), S("AREA"),
                 S("PROMOTER")}

RECURSIVE UpperValid(_)
\* the upper-cased, stripped values that name a GraphQL index, in order
UpperValid(list) ==
    IF list = <<>> THEN <<>>
    ELSE LET v == Upper(Strip(Head(list)))
         IN  (IF v \in ValidIndices THEN <<v>> ELSE <<>>)
             \o UpperValid(Tail(list))

AddTypeFilter(st, op, values) ==
    IF op \in {S("any"), S("contains_any"), S("in")}
    THEN LET valid == UpperValid(SplitOn(values, ","))
         IN  IF valid # <<>>
             THEN [st EXCEPT !.gf = DictSet(st.gf, S("type"), "any" :> valid)]
             ELSE st
    ELSE IF op = S("eq")
    THEN LET value == Upper(Strip(values))
         IN  IF value \in ValidIndices
             THEN [st EXCEPT !.gf = DictSet(st.gf, S("type"), "eq" :> value)]
             ELSE st
    ELSE AddClientFilter(st, S("type"), op, values, "AND")

\* field, operator, values = part.split(':', 2)
SecondColon(part) == IndexOf(part, ":", IndexOf(part, ":", 1) + 1)

ClauseField(part) == SubSeq(part, 1, IndexOf(part, ":", 1) - 1)

ClauseOperator(part) ==
    SubSeq(part, IndexOf(part, ":", 1) + 1, SecondColon(part) - 1)

ClauseValues(part) == SubSeq(part, SecondColon(part) + 1, Len(part))

\* the body of the loop for a part that holds a colon, AdvancedFilterExpression
PlaceAdvanced(st, part, current_operator) ==
    LET field == ClauseField(part)
        op == ClauseOperator(part)
        values == ClauseValues(part)
    IN  IF field = S("genre") /\ op = S("contains_any")
        THEN AddGraphqlFilter(st, field, S("any"), values)
        ELSE IF CanHandleInGraphql(field, op, values)
        THEN AddGraphqlFilter(st, field, op, values)
        ELSE AddClientFilter(st, field, op, values, current_operator)

\* the body of the loop for a part that holds a colon, SearchFilterExpression
\* and AdvancedSearchFilterExpression
PlaceSearch(st, part, current_operator) ==
    LET field == ClauseField(part)
        op == ClauseOperator(part)
        values == ClauseValues(part)
    IN  IF field = S("type")
        THEN AddTypeFilter(st, op, values)
        ELSE AddClientFilter(st, field, op, values, current_operator)

\* FilterExpression._can_handle_in_graphql
CanHandleInGraphqlBasic(field, op, values) ==
    IF op \in {S("eq"), S("ne"), S("gte"), S("lte")} THEN TRUE
    ELSE IF op = S("in") THEN FALSE
    ELSE FALSE

\* self.graphql_filters[field][key] = values, on a new descriptor when the
\* field has none
DictMerge(d, field, key, values) ==
    LET old == IF field \in DOMAIN d THEN d[field] ELSE EmptyFcn
    IN  DictSet(d, field, DictSet(old, key, values))

\* FilterExpression._add_graphql_filter
AddGraphqlFilterBasic(st, field, op, values) ==
    IF op = S("eq")
    THEN [st EXCEPT !.gf = DictSet(st.gf, field, "eq" :> values)]
    ELSE IF op = S("ne")
    THEN [st EXCEPT !.gf = DictSet(st.gf, field, "ne" :> values)]
    ELSE IF op = S("gte")
    THEN [st EXCEPT !.gf = DictMerge(st.gf, field, "gte", values)]
    ELSE IF op = S("lte")
    THEN [st EXCEPT !.gf = DictMerge(st.gf, field, "lte", values)]
    ELSE st

\* the body of the loop for a part that holds a colon, FilterExpression
PlaceBasic(st, part, current_operator) ==
    LET field == ClauseField(part)
        op == ClauseOperator(part)
        values == ClauseValues(part)
    IN  IF CanHandleInGraphqlBasic(field, op, values)
        THEN AddGraphqlFilterBasic(st, field, op, values)
        ELSE AddClientFilter(st, field, op, values, current_operator)

RECURSIVE ParseParts(_, _, _, _, _)
\* the loop of _parse_expression from index i on
ParseParts(c, parts, i, current_operator, st) ==
    IF i > Len(parts) THEN st
    ELSE LET part == Strip(parts[i])
         IN  IF part \in {S("AND"), S("OR"), S("NOT")}
             THEN ParseParts(c, parts, i + 1, part[1], st)
             ELSE IF Contains(part, ":")
             THEN IF SecondColon(part) = 0
                  THEN [st EXCEPT !.raised = TRUE]
                  ELSE ParseParts(c, parts, i + 1, current_operator,
                           IF c = Advanced
                           THEN PlaceAdvanced(st, part, current_operator)
                           ELSE IF c = Basic
                           THEN PlaceBasic(st, part, current_operator)
                           ELSE PlaceSearch(st, part, current_operator))
             ELSE ParseParts(c, parts, i + 1, current_operator, st)

ParseExpression(c, expr) ==
    ParseParts(c, ReSplit(expr), 1, "AND",
               [gf |-> EmptyFcn, cf |-> <<>>, raised |-> FALSE])

\* __init__: an empty or missing expression is not parsed
NewPlan(c, expr) ==
    IF expr # <<>> THEN ParseExpression(c, expr)
    ELSE [gf |-> EmptyFcn, cf |-> <<>>, raised |-> FALSE]

-----------------------------------------------------------------------------
(* Clause evaluation: _apply_filter_operator *)

\* The value handed in as event_values is a list of strings
\* (kind "list"), a bare string (kind "str") or something else (kind "other").
ListValue(l) == [kind |-> "list", val |-> l]
StrValue(s) == [kind |-> "str", val |-> s]
OtherValue == [kind |-> "other", val |-> <<>>]

\* isinstance(event_values, str) / not isinstance(event_values, list)
AsList(v) ==
    IF v.kind = "str" THEN (IF v.val # <<>> THEN <<v.val>> ELSE <<>>)
    ELSE IF v.kind # "list" THEN <<>>
    ELSE v.val

RECURSIVE Normalize(_)
\* [str(v).lower().strip() for v in list if v]
Normalize(list) ==
    IF list = <<>> THEN <<>>
    ELSE (IF Head(list) # <<>> THEN <<Strip(Lower(Head(list)))>> ELSE <<>>)
         \o Normalize(Tail(list))

Digits == {"0", "1", "2", "3", "4", "5", "6", "7", "8", "9"}

DigitVal(c) ==
    CASE c = "0" -> 0 [] c = "1" -> 1 [] c = "2" -> 2 [] c = "3" -> 3
      [] c = "4" -> 4 [] c = "5" -> 5 [] c = "6" -> 6 [] c = "7" -> 7
      [] c = "8" -> 8 [] c = "9" -> 9

\* float(s) succeeds: over the symbols of this model, exactly the non-empty
\* digit strings, surrounding white space allowed
IsFloat(s) ==
    LET t == Strip(s)
    IN  t # <<>> /\ \A i \in DOMAIN t : t[i] \in Digits

RECURSIVE DecimalValue(_)
DecimalValue(t) ==
    IF t = <<>> THEN 0
    ELSE 10 * DecimalValue(SubSeq(t, 1, Len(t) - 1)) + DigitVal(t[Len(t)])

\* float(s), for IsFloat(s)
Float(s) == DecimalValue(Strip(s))

AllFloat(list) == \A i \in DOMAIN list : IsFloat(list[i])

\* any(ev in filter_values for ev in event_values)
AnyEventInFilter(ev, fv) ==
    \E i \in DOMAIN ev : \E j \in DOMAIN fv : ev[i] = fv[j]

\* any(fv in event_values for fv in filter_values)
AnyFilterInEvent(ev, fv) ==
    \E j \in DOMAIN fv : \E i \in DOMAIN ev : fv[j] = ev[i]

\* all(fv in event_values for fv in filter_values)
AllFilterInEvent(ev, fv) ==
    \A j \in DOMAIN fv : \E i \in DOMAIN ev : fv[j] = ev[i]

\* as HasSubstring, with == in place of in
HasSubstringEqual(ev, fv) ==
    \E j \in DOMAIN fv : \E i \in DOMAIN ev : Lower(fv[j]) = Lower(ev[i])

\* the 'has' branch: some operand is a sub-string of some value
HasSubstring(ev, fv) ==
    \E j \in DOMAIN fv :
        \E i \in DOMAIN ev : IsSubstring(Lower(fv[j]), Lower(ev[i]))

\* all(any(fv in rv ...) for fv in filter_values)
AllSubstring(ev, fv) ==
    \A j \in DOMAIN fv :
        \E i \in DOMAIN ev : IsSubstring(Lower(fv[j]), Lower(ev[i]))

\* as Compare, with gte and lte excluding the bound
CompareStrict(op, a, b) ==
    CASE op = S("gt") -> a > b
      [] op = S("lt") -> a < b
      [] op = S("gte") -> a > b
      [] op = S("lte") -> a < b

Compare(op, a, b) ==
    CASE op = S("gt") -> a > b
      [] op = S("lt") -> a < b
      [] op = S("gte") -> a >= b
      [] op = S("lte") -> a =< b

\* the gt / lt / gte / lte branch of AdvancedFilterExpression
NumericAdvanced(ev, op, fv) ==
    IF ev = <<>> \/ fv = <<>> THEN FALSE
    ELSE IF ~AllFloat(ev) \/ ~IsFloat(fv[1]) THEN FALSE
    ELSE \E i \in DOMAIN ev : Compare(op, Float(ev[i]), Float(fv[1]))

\* as BetweenAdvanced, with the upper bound excluded
BetweenAdvancedBelowMax(ev, fv) ==
    IF ev = <<>> \/ Len(fv) < 2 THEN FALSE
    ELSE IF ~AllFloat(ev) \/ ~IsFloat(fv[1]) \/ ~IsFloat(fv[2]) THEN FALSE
    ELSE \E i \in DOMAIN ev :
             Float(fv[1]) =< Float(ev[i]) /\ Float(ev[i]) < Float(fv[2])

\* the between branch of AdvancedFilterExpression
BetweenAdvanced(ev, fv) ==
    IF ev = <<>> \/ Len(fv) < 2 THEN FALSE
    ELSE IF ~AllFloat(ev) \/ ~IsFloat(fv[1]) \/ ~IsFloat(fv[2]) THEN FALSE
    ELSE \E i \in DOMAIN ev :
             Float(fv[1]) =< Float(ev[i]) /\ Float(ev[i]) =< Float(fv[2])

StartsAdvanced(ev, fv) ==
    IF ev = <<>> \/ fv = <<>> THEN FALSE
    ELSE \E i \in DOMAIN ev : StartsWith(ev[i], Lower(fv[1]))

EndsAdvanced(ev, fv) ==
    IF ev = <<>> \/ fv = <<>> THEN FALSE
    ELSE \E i \in DOMAIN ev : EndsWith(ev[i], Lower(fv[1]))

EqAdvanced(ev, fv) == AnyEventInFilter(ev, fv)

NinAdvanced(ev, fv) == ~AnyEventInFilter(ev, fv)

\* as ContainsAllAdvanced, with any(...) in place of all(...)
ContainsAllAdvancedAny(ev, fv) == AnyFilterInEvent(ev, fv)

ContainsAllAdvanced(ev, fv) == AllFilterInEvent(ev, fv)

\* as ContainsAnyAdvanced, looking at the first operand only
ContainsAnyAdvancedFirst(ev, fv) ==
    fv # <<>> /\ \E i \in DOMAIN ev : fv[1] = ev[i]

ContainsAnyAdvanced(ev, fv) == AnyFilterInEvent(ev, fv)

\* as ContainsNoneAdvanced, with not all(...) in place of not any(...)
ContainsNoneAdvancedNotAll(ev, fv) == ~AllFilterInEvent(ev, fv)

ContainsNoneAdvanced(ev, fv) == ~AnyFilterInEvent(ev, fv)

\* as ApplyFilterOperator, with an unknown operator matching nothing
ApplyFilterOperatorReject(values, op, operands, logical_op) ==
    LET ev == Normalize(AsList(values))
        fv == Normalize(operands)
    IN  CASE op = S("eq") -> EqAdvanced(ev, fv)
          [] op = S("in") -> AnyEventInFilter(ev, fv)
          [] op = S("nin") -> NinAdvanced(ev, fv)
          [] op = S("has") -> HasSubstring(ev, fv)
          [] op = S("contains_all") -> ContainsAllAdvanced(ev, fv)
          [] op = S("contains_any") -> ContainsAnyAdvanced(ev, fv)
          [] op = S("contains_none") -> ContainsNoneAdvanced(ev, fv)
          [] op = S("all") -> AllFilterInEvent(ev, fv)
          [] op \in {S("gt"), S("lt"), S("gte"), S("lte")} ->
                NumericAdvanced(ev, op, fv)
          [] op = S("between") -> BetweenAdvanced(ev, fv)
          [] op = S("starts") -> StartsAdvanced(ev, fv)
          [] op = S("ends") -> EndsAdvanced(ev, fv)
          [] OTHER -> FALSE

\* AdvancedFilterExpression._apply_filter_operator, inherited by
\* SearchFilterExpression
ApplyFilterOperator(values, op, operands, logical_op) ==
    LET ev == Normalize(AsList(values))
        fv == Normalize(operands)
    IN  CASE op = S("eq") -> EqAdvanced(ev, fv)
          [] op = S("in") -> AnyEventInFilter(ev, fv)
          [] op = S("nin") -> NinAdvanced(ev, fv)
          [] op = S("has") -> HasSubstring(ev, fv)
          [] op = S("contains_all") -> ContainsAllAdvanced(ev, fv)
          [] op = S("contains_any") -> ContainsAnyAdvanced(ev, fv)
          [] op = S("contains_none") -> ContainsNoneAdvanced(ev, fv)
          [] op = S("all") -> AllFilterInEvent(ev, fv)
          [] op \in {S("gt"), S("lt"), S("gte"), S("lte")} ->
                NumericAdvanced(ev, op, fv)
          [] op = S("between") -> BetweenAdvanced(ev, fv)
          [] op = S("starts") -> StartsAdvanced(ev, fv)
          [] op = S("ends") -> EndsAdvanced(ev, fv)
          [] OTHER -> TRUE

\* the numeric branch of AdvancedSearchFilterExpression; any(...) over an
\* empty list never evaluates float(filter_values[0])
NumericSearch(rv, op, fv) ==
    IF ~AllFloat(rv) THEN FALSE
    ELSE IF op = S("between")
    THEN IF Len(fv) >= 2
         THEN IF ~IsFloat(fv[1]) \/ ~IsFloat(fv[2]) THEN FALSE
              ELSE \E i \in DOMAIN rv :
                       Float(fv[1]) =< Float(rv[i])
                       /\ Float(rv[i]) =< Float(fv[2])
         ELSE TRUE
    ELSE IF rv = <<>> THEN FALSE
    ELSE IF fv = <<>> THEN FALSE
    ELSE IF ~IsFloat(fv[1]) THEN FALSE
    ELSE \E i \in DOMAIN rv : Compare(op, Float(rv[i]), Float(fv[1]))

NeSearch(rv, fv) == ~AnyEventInFilter(rv, fv)

ContainsAnySearch(rv, fv) == AnyEventInFilter(rv, fv)

ContainsNoneSearch(rv, fv) == ~AnyEventInFilter(rv, fv)

\* AdvancedSearchFilterExpression._apply_filter_operator
ApplyFilterOperatorSearch(values, op, operands, logical_op) ==
    LET rv == Normalize(AsList(values))
        fv == Normalize(operands)
    IN  CASE op = S("eq") -> AnyEventInFilter(rv, fv)
          [] op = S("ne") -> NeSearch(rv, fv)
          [] op \in {S("in"), S("any"), S("contains_any")} ->
                ContainsAnySearch(rv, fv)
          [] op \in {S("nin"), S("contains_none")} ->
                ContainsNoneSearch(rv, fv)
          [] op = S("has") -> HasSubstring(rv, fv)
          [] op \in {S("contains_all"), S("all")} -> AllSubstring(rv, fv)
          [] op = S("starts") ->
                \E j \in DOMAIN fv :
                    \E i \in DOMAIN rv : StartsWith(rv[i], fv[j])
          [] op = S("ends") ->
                \E j \in DOMAIN fv :
                    \E i \in DOMAIN rv : EndsWith(rv[i], fv[j])
          [] op \in {S("gt"), S("lt"), S("gte"), S("lte"), S("between")} ->
                NumericSearch(rv, op, fv)
          [] OTHER -> TRUE

\* the evaluator of class c
Evaluate(c, values, op, operands, logical_op) ==
    IF c = AdvancedSearch
    THEN ApplyFilterOperatorSearch(values, op, operands, logical_op)
    ELSE ApplyFilterOperator(values, op, operands, logical_op)

-----------------------------------------------------------------------------
(* Field extraction and plan evaluation: AdvancedFilterExpression *)

\* An event is event['event'] as a record of strings, artists being the
\* list of the artists' names and venue the venue's name; a missing key
\* reads as the empty string or list, as every .get(key, default) of the
\* extractor does.  EventKeys are the keys with a string value that the
\* extractor has no branch for.
EventKeys == {"id", "contentUrl", "flyerFront"}

CommonGenres ==
    <<S("techno"), S("house"), S("ambient"), S("trance"),
      <<"drum", " ", "and", " ", "bass">>, S("dnb"), S("minimal"),
      <<"deep", " ", "house">>, <<"tech", " ", "house">>, S("progressive"),
      S("disco"), S("funk"), S("jazz"), S("experimental"), S("hip-hop"),
      S("dubstep"), S("garage")>>

\* word in title, for a word that is the text of one symbol or the start of
\* the symbol "techno"
WordInTitle(word, title) ==
    \E i \in DOMAIN title :
        title[i] = word \/ (word = "tech" /\ title[i] = "techno")

RECURSIVE FoundGenres(_, _)
\* [genre for genre in common_genres if genre in title]
FoundGenres(genres, title) ==
    IF genres = <<>> THEN <<>>
    ELSE (IF IsSubstring(Head(genres), title) THEN <<Head(genres)>> ELSE <<>>)
         \o FoundGenres(Tail(genres), title)

GenreValues(e) ==
    LET title == Lower(e.title)
    IN  FoundGenres(CommonGenres, title)
        \o (IF WordInTitle("drum", title) /\ WordInTitle("bass", title)
            THEN <<(<<"drum", " ", "and", " ", "bass">>)>> ELSE <<>>)
        \o (IF WordInTitle("deep", title) /\ WordInTitle("house", title)
            THEN <<(<<"deep", " ", "house">>)>> ELSE <<>>)
        \o (IF WordInTitle("tech", title) /\ WordInTitle("house", title)
            THEN <<(<<"tech", " ", "house">>)>> ELSE <<>>)

RECURSIVE ArtistNames(_)
\* [artist.get('name', '').lower() for artist in artists if artist.get('name')]
ArtistNames(artists) ==
    IF artists = <<>> THEN <<>>
    ELSE (IF Head(artists) # <<>> THEN <<Lower(Head(artists))>> ELSE <<>>)
         \o ArtistNames(Tail(artists))

LowerOne(v) == IF v # <<>> THEN <<Lower(v)>> ELSE <<>>

One(v) == IF v # <<>> THEN <<v>> ELSE <<>>

\* _get_event_field_values; the result is always a list
GetEventFieldValues(e, field) ==
    CASE field = S("genre") -> GenreValues(e)
      [] field = S("artists") -> ArtistNames(e.artists)
      [] field = S("eventType") -> LowerOne(e.eventType)
      [] field = S("venue") -> LowerOne(e.venue)
      [] field = S("area") -> LowerOne(e.area)
      [] field \in {S("price"), S("cost")} ->
            One(IF e.price # <<>> THEN e.price ELSE e.cost)
      [] field = S("title") -> LowerOne(e.title)
      [] field = S("date") -> One(e.date)
      [] field \in {S("time"), S("startTime")} -> One(e.startTime)
      [] field = S("endTime") -> One(e.endTime)
      [] field \in {S("interested"), S("interestedCount")} ->
            One(e.interestedCount)
      [] field = S("isTicketed") -> LowerOne(e.isTicketed)
      [] OTHER ->
            IF Len(field) = 1 /\ field[1] \in EventKeys
            THEN LowerOne(e[field[1]])
            ELSE <<>>

RECURSIVE FoldClauses(_, _, _)
\* the clauses cf folded from the left into acc, each by its logical_op
FoldClauses(cf, e, acc) ==
    IF cf = <<>> THEN acc
    ELSE LET filter_def == Head(cf)
             values == GetEventFieldValues(e, filter_def.field)
             m == ApplyFilterOperator(ListValue(values), filter_def.operator,
                                      filter_def.values, filter_def.logical_op)
         IN  FoldClauses(Tail(cf), e,
                 CASE filter_def.logical_op = "OR" -> acc \/ m
                   [] filter_def.logical_op = "NOT" -> acc /\ ~m
                   [] OTHER -> acc /\ m)

\* as EventMatchesClientFilters, with the clauses joined by their logical_op
EventMatchesFold(cf, e) == FoldClauses(cf, e, TRUE)

RECURSIVE EventMatchesClientFilters(_, _)
\* the loop of _event_matches_client_filters over the clauses cf: the first
\* clause that does not match returns False
EventMatchesClientFilters(cf, e) ==
    IF cf = <<>> THEN TRUE
    ELSE LET filter_def == Head(cf)
             values == GetEventFieldValues(e, filter_def.field)
             m == ApplyFilterOperator(ListValue(values), filter_def.operator,
                                      filter_def.values, filter_def.logical_op)
         IN  IF ~m THEN FALSE
             ELSE EventMatchesClientFilters(Tail(cf), e)

\* as FilterLoop, with the loop starting at the second event
FilterLoopFromSecond(cf, list) ==
    IF list = <<>> THEN <<>>
    ELSE SelectSeq(Tail(list), LAMBDA e : EventMatchesClientFilters(cf, e))

RECURSIVE FilterLoop(_, _)
\* the loop of apply_client_filters: append the events that match
FilterLoop(cf, list) ==
    IF list = <<>> THEN <<>>
    ELSE (IF EventMatchesClientFilters(cf, Head(list))
          THEN <<Head(list)>> ELSE <<>>)
         \o FilterLoop(cf, Tail(list))

\* apply_client_filters
ApplyClientFilters(cf, list) ==
    IF cf = <<>> THEN list ELSE FilterLoop(cf, list)

-----------------------------------------------------------------------------
(* Field extraction and plan evaluation: FilterExpression *)

\* the keys of an event whose value is a string
StringKeys ==
    {"id", "contentUrl", "flyerFront", "genre", "title", "eventType", "price",
     "cost", "date", "startTime", "endTime", "interestedCount", "isTicketed"}

\* FilterExpression._get_event_field_value: the value itself, not a list;
\* the value of venue is a mapping and the value of artists a list of
\* mappings
GetEventFieldValueBasic(e, field) ==
    CASE field = S("genre") -> StrValue(e.genre)
      [] field = S("area") -> StrValue(e.area)
      [] field = S("eventType") -> StrValue(e.eventType)
      [] OTHER ->
            IF Len(field) = 1 /\ field[1] \in StringKeys
            THEN StrValue(e[field[1]])
            ELSE IF field \in {S("venue"), S("artists")} THEN OtherValue
            ELSE StrValue(<<>>)

\* event_value in values
ValueInList(v, values) ==
    v.kind = "str" /\ \E j \in DOMAIN values : values[j] = v.val

\* the if / elif chain of FilterExpression._event_matches_client_filters;
\* values is never empty, str.split returns at least one piece
ApplyFilterBasic(event_value, op, values, logical_op) ==
    CASE op = S("in") -> ValueInList(event_value, values)
      [] op = S("nin") \/ (logical_op = "NOT" /\ op = S("in")) ->
            ~ValueInList(event_value, values)
      [] op = S("eq") -> ValueInList(event_value, <<values[1]>>)
      [] op = S("ne") -> ~ValueInList(event_value, <<values[1]>>)
      [] OTHER -> TRUE

RECURSIVE EventMatchesClientFiltersBasic(_, _)
\* FilterExpression._event_matches_client_filters
EventMatchesClientFiltersBasic(cf, e) ==
    IF cf = <<>> THEN TRUE
    ELSE LET filter_def == Head(cf)
             event_value == GetEventFieldValueBasic(e, filter_def.field)
             m == ApplyFilterBasic(event_value, filter_def.operator,
                                   filter_def.values, filter_def.logical_op)
         IN  IF ~m THEN FALSE
             ELSE EventMatchesClientFiltersBasic(Tail(cf), e)

RECURSIVE FilterLoopBasic(_, _)
FilterLoopBasic(cf, list) ==
    IF list = <<>> THEN <<>>
    ELSE (IF EventMatchesClientFiltersBasic(cf, Head(list))
          THEN <<Head(list)>> ELSE <<>>)
         \o FilterLoopBasic(cf, Tail(list))

\* FilterExpression.apply_client_filters
ApplyClientFiltersBasic(cf, list) ==
    IF cf = <<>> THEN list ELSE FilterLoopBasic(cf, list)

\* apply_client_filters of class c
Filter(c, cf, list) ==
    IF c = Basic THEN ApplyClientFiltersBasic(cf, list)
    ELSE ApplyClientFilters(cf, list)

-----------------------------------------------------------------------------
(* Inputs *)

RECURSIVE SeqsUpTo(_, _)
\* the sequences over the set A of length at most n
SeqsUpTo(A, n) ==
    IF n = 0 THEN {<<>>}
    ELSE LET shorter == SeqsUpTo(A, n - 1)
         IN  shorter \cup {Append(q, a) : q \in shorter, a \in A}

Clause(field, op, values) == S(field) \o S(":") \o S(op) \o S(":") \o values

\* the pieces an expression is written with: logical operators, text
\* without a colon, text with one colon, clauses
ParseItems ==
    {S("AND"), S("OR"), S("NOT"),
     S("genre-techno"),
     <<"genre", ":", "techno">>,
     Clause("genre", "eq", S("techno")),
     Clause("genre", "eq", S("house")),
     Clause("artists", "eq", <<"x", " ", "y">>),
     Clause("genre", "contains_any", <<"techno", ",", " ", "house">>),
     Clause("venue", "any", <<"x", ",", "y">>),
     Clause("artists", "has", S("x")),
     Clause("artists", "foo", S("x")),
     Clause("type", "eq", S("artist")),
     Clause("type", "any", <<"artist", ",", "bogus">>),
     Clause("type", "has", S("x"))}

\* expressions: pieces joined by one blank
ParseExpressions == {Join(q, S(" ")) : q \in SeqsUpTo(ParseItems, MaxItems)}

PlanClasses == {Advanced, Search, AdvancedSearch}

NoEvent == [id |-> <<>>, contentUrl |-> <<>>, flyerFront |-> <<>>,
            genre |-> <<>>, title |-> <<>>, artists |-> <<>>, eventType |-> <<>>,
            venue |-> <<>>, area |-> <<>>, price |-> <<>>, cost |-> <<>>,
            date |-> <<>>, startTime |-> <<>>, endTime |-> <<>>,
            interestedCount |-> <<>>, isTicketed |-> <<>>]

Event(id, artists, venue) ==
    [NoEvent EXCEPT !.id = S(id), !.artists = artists, !.venue = venue]

FilterEvents ==
    {Event("1", <<S("X")>>, S("y")),
     Event("2", <<S("x"), S("w")>>, S("z")),
     Event("3", <<S("w")>>, S("Y")),
     Event("4", <<>>, <<>>)}

FilterClauses ==
    {Clause("artists", "has", S("x")),
     Clause("venue", "has", S("y")),
     Clause("artists", "nin", S("w")),
     Clause("genre", "eq", S("techno"))}

RECURSIVE ClauseChains(_)
\* clause (logical-op clause)*, with at most n clauses
ClauseChains(n) ==
    IF n = 1 THEN FilterClauses
    ELSE LET shorter == ClauseChains(n - 1)
         IN  shorter \cup
             {x \o <<" ", j, " ">> \o c :
                  x \in shorter, j \in LogicalOps, c \in FilterClauses}

FilterExpressions == ClauseChains(MaxClauses)

EvalStrings ==
    {S("x"), <<"X", " ">>, <<"x", " ", "y">>, S(" "), <<>>, S("5")}

EvalOperators ==
    {S("eq"), S("ne"), S("in"), S("nin"), S("any"), S("all"),
     S("contains_all"), S("contains_any"), S("contains_none"), S("has"),
     S("starts"), S("ends"), S("gt"), S("lt"), S("gte"), S("lte"),
     S("between"), S("foo")}

EvalValues ==
    {ListValue(l) : l \in SeqsUpTo(EvalStrings, MaxEventValues)}
    \cup {StrValue(x) : x \in EvalStrings} \cup {OtherValue}

EvalOperands == SeqsUpTo(EvalStrings, MaxOperands)

\* numbers as text: 3, 5, 10, 15, 30, 31
Three == S("3")
Five == S("5")
Ten == <<"1", "0">>
Fifteen == <<"1", "5">>
Thirty == <<"3", "0">>
ThirtyOne == <<"3", "1">>

NumericOperators ==
    {S("gt"), S("lt"), S("gte"), S("lte"), S("between")}

\* what an extractor hands to a numeric clause: numbers, text that is no
\* number, white space (an extractor never returns an empty string)
NumericValueStrings == {Three, Five, Ten, S("x"), S(" ")}

\* the pieces of the operand text of a numeric clause; an empty piece
\* stands next to a comma with nothing before or after it
NumericOperandStrings == {Three, Five, Ten, S("x"), <<>>}

NumericValues ==
    {ListValue(l) : l \in SeqsUpTo(NumericValueStrings, MaxEventValues)}

NumericOperands == SeqsUpTo(NumericOperandStrings, MaxOperands)

PricedEvent(id, price, artists) ==
    [NoEvent EXCEPT !.id = S(id), !.price = price, !.artists = artists]

ScenarioEvents ==
    {PricedEvent("1", Five, <<(<<"X", " ", "y">>)>>),
     PricedEvent("2", Fifteen, <<S("w")>>),
     PricedEvent("3", Thirty, <<S("w"), S("x")>>),
     PricedEvent("4", ThirtyOne, <<>>),
     PricedEvent("5", <<>>, <<S("y")>>),
     PricedEvent("6", S("x"), <<S("X")>>),
     [NoEvent EXCEPT !.id = S("7"), !.cost = Fifteen],
     [NoEvent EXCEPT !.id = S("8"), !.genre = S("jazz")]}

PriceBounds == {Five, Ten, Thirty}

ScenarioExpressions ==
    {Clause("price", "between", lo \o S(",") \o hi) :
         lo \in PriceBounds, hi \in PriceBounds}
    \cup {Clause("genre", "contains_any", <<"techno", ",", "house">>)
              \o <<" ", "AND", " ">> \o Clause("artists", "has", s) :
          s \in {S("x"), S("X"), S("w"), <<"x", " ", "y">>}}
    \cup {S("genre-techno"), <<"genre", " ", "techno">>,
          <<"techno", " ", "AND", " ", "house">>, <<>>}
    \cup {Clause("artists", "foo", S("x")),
          Clause("price", "between", Ten \o S(",") \o Thirty)
              \o <<" ", "OR", " ">> \o Clause("artists", "ne", S("w")),
          Clause("artists", "in", S("w")),
          Clause("date", "gte", Five)
              \o <<" ", "AND", " ">> \o Clause("date", "lte", Ten),
          Clause("date", "eq", Five)
              \o <<" ", "AND", " ">> \o Clause("date", "gte", Ten),
          Clause("id", "in", <<"1", ",", "2">>),
          Clause("id", "in", <<"1", ",", "2">>)
              \o <<" ", "AND", " ">> \o Clause("id", "has", S("1")),
          Clause("area", "eq", S("1")) \o <<" ", "AND", " ", "NOT", " ">>
              \o Clause("genre", "in", <<"jazz", ",", "ambient">>),
          Clause("area", "eq", S("1")) \o <<" ", "NOT", " ">>
              \o Clause("genre", "in", <<"jazz", ",", "ambient">>)}

-----------------------------------------------------------------------------
(* EnhancedEventFetcher: payload, upstream pages, fetch_all_events *)

\* Texts stand for the constructor's arguments (an area id, a date, a genre);
\* <<>> is an argument that was left out (None).
\* dict.update
DictUpdate(d, e) ==
    [k \in (DOMAIN d) \cup (DOMAIN e) |-> IF k \in DOMAIN e THEN e[k] ELSE d[k]]

\* the base restrictions and the legacy filters of generate_payload
BaseFilters(f) ==
    LET date == IF f.listing_date_lte # <<>>
                THEN ("gte" :> f.listing_date_gte) @@ ("lte" :> f.listing_date_lte)
                ELSE ("gte" :> f.listing_date_gte)
        base == (S("areas") :> ("eq" :> f.areas)) @@ (S("listingDate") :> date)
        with_genre == IF f.genre # <<>>
                      THEN DictSet(base, S("genre"), "eq" :> f.genre)
                      ELSE base
    IN  IF f.event_type # <<>>
        THEN DictSet(with_genre, S("eventType"), "eq" :> f.event_type)
        ELSE with_genre

\* the loop over graphql_filters.items()
MergeFilters(filters, gf) ==
    [field \in (DOMAIN filters) \cup (DOMAIN gf) |->
        IF field \notin DOMAIN gf THEN filters[field]
        ELSE IF field \in DOMAIN filters
             THEN DictUpdate(filters[field], gf[field])
             ELSE gf[field]]

\* generate_payload: payload["variables"]["filters"] and ["page"]
GeneratePayload(f, expr, gf) ==
    [filters |-> IF expr # <<>> THEN MergeFilters(BaseFilters(f), gf)
                 ELSE BaseFilters(f),
     page |-> 1]

\* The upstream API is the environment.  It answers the request for page p
\* with the p-th of its pages, then with `more` further pages of one record,
\* then with empty pages; the request for page fail_page fails in the way
\* fail_kind says.
EmptyPage == [events |-> <<>>, bumps |-> <<>>]

FillerEvent == [NoEvent EXCEPT !.id = S("0")]

FillerPage == [events |-> <<FillerEvent>>, bumps |-> <<>>]

PageOf(up, p) ==
    IF p <= Len(up.pages) THEN up.pages[p]
    ELSE IF p <= Len(up.pages) + up.more THEN FillerPage
    ELSE EmptyPage

ResponseKind(up, p) == IF p = up.fail_page THEN up.fail_kind ELSE "ok"

Raised == [raised |-> TRUE, events |-> <<>>, bumps |-> <<>>]

Returned(evs, bumps) == [raised |-> FALSE, events |-> evs, bumps |-> bumps]

\* get_events: requests.post is called outside the try block
GetEvents(up, p) ==
    LET kind == ResponseKind(up, p)
    IN  IF kind = "transport" THEN Raised
        ELSE IF kind \in {"http_error", "not_json", "errors"}
             THEN Returned(<<>>, <<>>)
             ELSE Returned(PageOf(up, p).events, PageOf(up, p).bumps)

PageLimit == 50

\* as AtSafetyLimit, one page later
AtSafetyLimitLate(page) == page > PageLimit + 1

\* if page > 50: break
AtSafetyLimit(page) == page > PageLimit

RECURSIVE FetchPagesV2(_, _, _)
\* the loop of EnhancedEventFetcherV2.fetch_all_events from page on
FetchPagesV2(up, page, acc) ==
    LET result == GetEvents(up, page)
    IN  IF result.raised THEN Raised
        ELSE IF result.events = <<>> /\ result.bumps = <<>> THEN acc
        ELSE LET extended == Returned(acc.events \o result.events,
                                      acc.bumps \o result.bumps)
             IN  IF AtSafetyLimit(page + 1) THEN extended
                 ELSE FetchPagesV2(up, page + 1, extended)

\* EnhancedEventFetcherV2(...).fetch_all_events()
FetchAllEventsV2(up) == FetchPagesV2(up, 1, Returned(<<>>, <<>>))

\* The pages the upstream API serves when it is asked for the records with
\* one of the genres only: it is taken to compare the record's genre.
ServerGenreAny(up, values) ==
    LET keep(e) == \E i \in DOMAIN values : e.genre = values[i]
        cut == [i \in DOMAIN up.pages |->
                   [events |-> SelectSeq(up.pages[i].events, keep),
                    bumps |-> SelectSeq(up.pages[i].bumps, keep)]]
    IN  [up EXCEPT !.pages = SelectSeq(cut, LAMBDA pg : pg # EmptyPage),
                   !.more = IF keep(FillerEvent) THEN up.more ELSE 0]

IdsOf(list) == {list[i].id : i \in DOMAIN list}

WithIds(list, ids) == SelectSeq(list, LAMBDA e : e.id \in ids)

WithoutIds(list, ids) == SelectSeq(list, LAMBDA e : e.id \notin ids)

\* AdvancedFilterManager.get_events_with_filter('genre', value)
GetEventsWithFilter(up, value) ==
    FetchAllEventsV2(ServerGenreAny(up, <<value>>))

RECURSIVE ContainsAllFrom(_, _, _)
\* the loop 'for value in values[1:]' of AdvancedFilterManager.contains_all
ContainsAllFrom(up, values, acc) ==
    IF acc.raised \/ values = <<>> THEN acc
    ELSE LET value_result == GetEventsWithFilter(up, Head(values))
         IN  IF value_result.raised THEN Raised
             ELSE ContainsAllFrom(up, Tail(values),
                      Returned(WithIds(acc.events, IdsOf(value_result.events)),
                               WithIds(acc.bumps, IdsOf(value_result.bumps))))

\* GenreQueryManager.contains_all
ManagerContainsAll(up, values) ==
    IF values = <<>> THEN Returned(<<>>, <<>>)
    ELSE ContainsAllFrom(up, Tail(values), GetEventsWithFilter(up, values[1]))

\* GenreQueryManager.contains_any
ManagerContainsAny(up, values) == FetchAllEventsV2(ServerGenreAny(up, values))

\* GenreQueryManager.contains_none: after fetching every record,
\* AdvancedFilterManager.contains_none calls self.contains_any(field, values),
\* which on this object is GenreQueryManager.contains_any(values): TypeError
ManagerContainsNone(up, values) == Raised

\* A number the code fails to compute is [raised |-> TRUE].
Number(n) == [raised |-> FALSE, val |-> n]

NoNumber == [raised |-> TRUE, val |-> 0]

\* the value AdvancedFilterManager compares: the digits of the price, 0 if
\* there are none; the interest count, 0 if the record has none
ManagerValue(e, field) ==
    IF field = "price"
    THEN LET digits == SelectSeq(e.price, LAMBDA c : c \in Digits)
         IN  Number(IF digits = <<>> THEN 0 ELSE DecimalValue(digits))
    ELSE IF e.interestedCount = <<>> THEN Number(0)
         ELSE IF IsFloat(e.interestedCount) THEN Number(Float(e.interestedCount))
         ELSE NoNumber

\* the value fetch_all_events compares for its second and later special
\* filters: float(price or 0); the interest count as it is
InlineValue(e, field) ==
    LET text == IF field = "price" THEN e.price ELSE e.interestedCount
    IN  IF text = <<>> THEN Number(0)
        ELSE IF IsFloat(text) THEN Number(Float(text))
        ELSE NoNumber

\* the comparison of gt, lt and between with the thresholds float(operands)
Threshold(op, v, operands) ==
    CASE op = "gt" -> v > Float(operands[1])
      [] op = "lt" -> v < Float(operands[1])
      [] OTHER -> Float(operands[1]) <= v /\ v <= Float(operands[2])

\* the records of data that Value puts within the thresholds; raised when a
\* threshold or a value is no number
NumericSelect(data, op, operands, Value(_)) ==
    LET bad(list) == \E i \in DOMAIN list : Value(list[i]).raised
        keep(e) == Threshold(op, Value(e).val, operands)
    IN  IF data.raised \/ ~AllFloat(operands)
           \/ bad(data.events) \/ bad(data.bumps)
        THEN Raised
        ELSE Returned(SelectSeq(data.events, keep), SelectSeq(data.bumps, keep))

\* AdvancedFilterManager.greater_than, less_than, between
ManagerNumeric(up, field, op, operands) ==
    NumericSelect(FetchAllEventsV2(up), op, operands,
                  LAMBDA e : ManagerValue(e, field))

\* needs_special_handling
NeedsSpecialHandling(cf) ==
    IF cf.field = S("genre")
    THEN cf.operator \in {S("contains_all"), S("all"), S("contains_none"),
                          S("contains_any")}
    ELSE /\ cf.field \in {S("price"), S("interested"), S("interestedCount")}
         /\ cf.operator \in {S("gt"), S("lt"), S("between")}

\* events_data after the special handling: handled is FALSE while events_data
\* is None
NotHandled == [handled |-> FALSE, raised |-> FALSE, events |-> <<>>, bumps |-> <<>>]

Handled(r) ==
    [handled |-> TRUE, raised |-> r.raised, events |-> r.events, bumps |-> r.bumps]

NumericName(field) == IF field = S("price") THEN "price" ELSE "interested"

NumericOp(op) ==
    IF op = S("gt") THEN "gt" ELSE IF op = S("lt") THEN "lt" ELSE "between"

\* the operands a numeric special filter is handled with; <<>> if it is a
\* between with fewer than two values
NumericOperandsOf(sf) ==
    IF sf.operator = S("between")
    THEN (IF Len(sf.values) >= 2 THEN <<sf.values[1], sf.values[2]>> ELSE <<>>)
    ELSE <<sf.values[1]>>

\* the first (or only) special filter: a manager fetches the records
FirstSpecial(up, sf) ==
    IF sf.field = S("genre")
    THEN IF sf.operator \in {S("contains_all"), S("all")}
         THEN Handled(ManagerContainsAll(up, sf.values))
         ELSE IF sf.operator = S("contains_none")
              THEN Handled(ManagerContainsNone(up, sf.values))
              ELSE NotHandled
    ELSE IF NumericOperandsOf(sf) = <<>> THEN NotHandled
         ELSE Handled(ManagerNumeric(up, NumericName(sf.field),
                                     NumericOp(sf.operator),
                                     NumericOperandsOf(sf)))

\* a later special filter, applied to the records found so far
NextSpecial(up, sf, data) ==
    IF sf.field = S("genre")
    THEN IF sf.operator \in {S("contains_all"), S("all")}
         THEN LET temp_result == ManagerContainsAll(up, sf.values)
              IN  IF temp_result.raised THEN Handled(Raised)
                  ELSE Handled(Returned(
                           WithIds(data.events, IdsOf(temp_result.events)),
                           WithIds(data.bumps, IdsOf(temp_result.bumps))))
         ELSE IF sf.operator = S("contains_none")
              THEN LET temp_result == ManagerContainsAny(up, sf.values)
                   IN  IF temp_result.raised THEN Handled(Raised)
                       ELSE Handled(Returned(
                                WithoutIds(data.events, IdsOf(temp_result.events)),
                                WithoutIds(data.bumps, IdsOf(temp_result.bumps))))
              ELSE data
    ELSE IF NumericOperandsOf(sf) = <<>> THEN data
         ELSE Handled(NumericSelect(Returned(data.events, data.bumps),
                                    NumericOp(sf.operator),
                                    NumericOperandsOf(sf),
                                    LAMBDA e : InlineValue(e, NumericName(sf.field))))

RECURSIVE RestSpecial(_, _, _)
\* the loop 'for sf in special_filters[1:]'
RestSpecial(up, sfs, data) ==
    IF sfs = <<>> \/ data.raised \/ ~data.handled \/ data.events = <<>>
    THEN data
    ELSE RestSpecial(up, Tail(sfs), NextSpecial(up, Head(sfs), data))

\* the first phase of fetch_all_events
SpecialHandling(up, special_filters) ==
    IF special_filters = <<>> THEN NotHandled
    ELSE RestSpecial(up, Tail(special_filters),
                     FirstSpecial(up, special_filters[1]))

\* the local variables of a fetch_all_events call that has not started
NoFrame ==
    [pc |-> "idle", special_filters |-> <<>>, other_filters |-> <<>>,
     original_client_filters |-> <<>>, page |-> 0, all_events |-> <<>>,
     all_bumps |-> <<>>, requested |-> <<>>]

\* Inputs of the fetch specifications
Cheap == PricedEvent("1", Five, <<S("x")>>)

Mid == PricedEvent("2", Fifteen, <<S("w")>>)

Dear == PricedEvent("3", Thirty, <<S("w"), S("x")>>)

Unpriced == PricedEvent("5", <<>>, <<S("x")>>)

Jazz == [NoEvent EXCEPT !.id = S("8"), !.genre = S("jazz"), !.price = Fifteen]

FetchPageLists ==
    {<<>>,
     <<[events |-> <<Cheap, Mid, Dear>>, bumps |-> <<>>]>>,
     <<[events |-> <<Dear, Unpriced>>, bumps |-> <<Mid>>],
       [events |-> <<>>, bumps |-> <<Jazz>>],
       [events |-> <<Jazz, Cheap>>, bumps |-> <<>>]>>}

FailKinds == {"transport", "http_error", "not_json", "errors"}

NeverFails == [page |-> 0, kind |-> "ok"]

Failures == {NeverFails} \cup [page : {1, 2}, kind : FailKinds]

Upstream(pages, more, fail) ==
    [pages |-> pages, more |-> more, fail_page |-> fail.page,
     fail_kind |-> fail.kind]

ShortUpstreams == {Upstream(p, 0, f) : p \in FetchPageLists, f \in Failures}

LongUpstreams ==
    {Upstream(<<>>, m, f) :
         m \in {PageLimit - 1, PageLimit, PageLimit + 1},
         f \in {NeverFails, [page |-> 2, kind |-> "transport"]}}

Fetcher(lte, genre, event_type) ==
    [areas |-> S("13"), listing_date_gte |-> S("d1"), listing_date_lte |-> lte,
     genre |-> genre, event_type |-> event_type]

Fetchers ==
    {Fetcher(lte, genre, event_type) :
         lte \in {<<>>, S("d9")}, genre \in {<<>>, S("techno")},
         event_type \in {<<>>, S("club")}}

And(a, b) == a \o <<" ", "AND", " ">> \o b

FetchExpressions ==
    {<<>>,
     Clause("artists", "has", S("x")),
     Clause("price", "gt", Ten),
     And(Clause("price", "gt", Ten), Clause("artists", "has", S("x"))),
     And(Clause("price", "between", Ten), Clause("artists", "has", S("x"))),
     And(Clause("artists", "has", S("w")),
         Clause("price", "between", Five \o S(",") \o Fifteen)),
     And(Clause("price", "lt", Thirty),
         Clause("genre", "contains_none", S("jazz"))),
     And(Clause("genre", "contains_all", S("jazz")),
         Clause("price", "between", Ten \o S(",") \o Thirty)),
     And(Clause("genre", "contains_none", S("jazz")),
         Clause("artists", "has", S("w"))),
     Clause("price", "gt", S("x")),
     And(Clause("interested", "lt", Five), Clause("price", "gt", S("x"))),
     And(Clause("genre", "eq", S("jazz")), Clause("artists", "nin", S("w")))}

PayloadExpressions ==
    {<<>>,
     Clause("artists", "has", S("x")),
     Clause("genre", "eq", S("house")),
     Clause("genre", "any", <<"house", ",", "jazz">>),
     Clause("venue", "eq", S("y")),
     Clause("areas", "eq", S("99")),
     Clause("listingDate", "eq", S("d5")),
     Clause("listingDate", "gte", S("d5")),
     And(Clause("eventType", "eq", S("club")), Clause("venue", "any", S("y")))}

LongExpressions ==
    {<<>>,
     Clause("artists", "has", S("x")),
     And(Clause("price", "between", Ten), Clause("artists", "has", S("x")))}

SharedExpressions ==
    {Clause("artists", "has", S("x")),
     And(Clause("price", "gt", Ten), Clause("artists", "has", S("x"))),
     And(Clause("price", "between", Ten), Clause("artists", "has", S("x")))}

SharedUpstreams ==
    {Upstream(p, 0, f) :
         p \in FetchPageLists \ {<<>>},
         f \in {NeverFails, [page |-> 2, kind |-> "transport"]}}

\* no fetcher is in use
NoPayload == [filters |-> EmptyFcn, page |-> 0]

NoFetch ==
    /\ fetcher = Fetcher(<<>>, <<>>, <<>>)
    /\ payload = NoPayload
    /\ upstream = Upstream(<<>>, 0, NeverFails)
    /\ frames = <<>>

-----------------------------------------------------------------------------
(* area_cache.py: the in-memory cache, the SQLite tables and refresh_cache *)

\* cache_key = f"{area_name}_{country_code}"
CacheKey(area_name, country_code) == area_name \o S("_") \o country_code

\* str.isdigit(): every character is a digit and there is at least one
IsDigit(s) == s # <<>> /\ \A i \in DOMAIN s : s[i] \in Digits

\* call_ra_graphql for one area: the id in response["data"]["area"]["id"],
\* or <<>> when the API has no such area or the call raises
ApiAreaId(api, area_name, country_code) ==
    IF <<area_name, country_code>> \in DOMAIN api
    THEN api[<<area_name, country_code>>] ELSE <<>>

\* the refresh_cache call has UPDATEs that are not committed: its
\* connection holds the write lock of the database file
WriteLocked(c) == c.pending # EmptyFcn

\* get_area_id returned None
NoArea == [found |-> FALSE, area_id |-> <<>>, cache_status |-> "none"]

AreaFound(id, status) ==
    [found |-> TRUE, area_id |-> id, cache_status |-> status]

\* get_area_id(area_name, country_code): the value returned and the cache
\* after the call
GetAreaId(c, area_name, country_code) ==
    LET name == Lower(area_name)
        country == Lower(country_code)
        cache_key == CacheKey(name, country)
        area_id == ApiAreaId(c.api, name, country)
    IN  IF IsDigit(area_name)
        THEN [result |-> AreaFound(area_name, "bypass"), cache |-> c]
        ELSE IF cache_key \in DOMAIN c.area_cache
        THEN [result |-> AreaFound(c.area_cache[cache_key], "hit_memory"),
              cache |-> c]
        ELSE IF <<name, country>> \in DOMAIN c.rows
        THEN [result |-> AreaFound(c.rows[<<name, country>>], "hit_database"),
              cache |-> [c EXCEPT !.area_cache =
                             DictSet(@, cache_key, c.rows[<<name, country>>])]]
        ELSE IF area_id = <<>>
        THEN [result |-> NoArea, cache |-> c]
        ELSE IF WriteLocked(c)
        \* save_area_to_db raises 'database is locked' after the memory
        \* cache was written; the except clause returns None
        THEN [result |-> NoArea,
              cache |-> [c EXCEPT !.area_cache = DictSet(@, cache_key, area_id)]]
        ELSE [result |-> AreaFound(area_id, "miss"),
              cache |-> [c EXCEPT !.area_cache = DictSet(@, cache_key, area_id),
                                  !.rows = DictSet(@, <<name, country>>, area_id)]]

\* no refresh_cache call is in progress
NoRefresh ==
    [pc |-> "idle", existing_areas |-> <<>>, updated_count |-> 0,
     error_count |-> 0, status |-> "none"]

\* a set of rows as the list cursor.fetchall() returns: one order of it
RECURSIVE FetchAll(_)
FetchAll(keys) ==
    IF keys = {} THEN <<>>
    ELSE LET k == CHOOSE x \in keys : TRUE
         IN  <<k>> \o FetchAll(keys \ {k})

\* load_cache_from_db: the memory cache of the rows of a table
LoadCacheFromDb(rows) ==
    [key \in {CacheKey(Lower(k[1]), Lower(k[2])) : k \in DOMAIN rows} |->
        LET k == CHOOSE x \in DOMAIN rows :
                     CacheKey(Lower(x[1]), Lower(x[2])) = key
        IN  rows[k]]

-----------------------------------------------------------------------------
(* app.py: batch_events_v3, the handler of POST /v3/events/batch *)

MaxQueries == 20

\* as TooManyQueries, with one query more let through
TooManyQueriesLate(queries) == Len(queries) > MaxQueries + 1

\* if len(queries) > 20
TooManyQueries(queries) == Len(queries) > MaxQueries

RequiredFields == {"area", "start_date", "end_date"}

\* query.get(key), None being <<>>
QueryGet(query, key) == IF key \in DOMAIN query THEN query[key] ELSE <<>>

\* query.get('include_bumps', False)
IncludeBumps(query) ==
    "include_bumps" \in DOMAIN query /\ query["include_bumps"]

\* the upstream API as a fetcher built with include_bumps=False reads it:
\* get_events looks for the events of the basic query one level too deep
\* and finds none on any page
WithoutBumps(up) == [up EXCEPT !.pages = <<>>, !.more = 0]

\* int(s) succeeds for a string: digits, white space around them allowed
IsInt(s) == IsDigit(Strip(s))

LeapYear(y) == (y % 4 = 0 /\ y % 100 # 0) \/ y % 400 = 0

DaysInMonth(y, m) ==
    IF m = 2 THEN (IF LeapYear(y) THEN 29 ELSE 28)
    ELSE IF m \in {4, 6, 9, 11} THEN 30 ELSE 31

\* datetime.strptime(s, '%Y-%m-%d') succeeds: four digits of a year from 1
\* on, one or two digits of a month, one or two digits of a day of that
\* month
IsDate(s) ==
    LET parts == SplitOn(s, "-")
    IN  /\ Len(parts) = 3
        /\ \A i \in 1..3 : IsDigit(parts[i])
        /\ Len(parts[1]) = 4
        /\ Len(parts[2]) \in {1, 2}
        /\ Len(parts[3]) \in {1, 2}
        /\ DecimalValue(parts[1]) >= 1
        /\ DecimalValue(parts[2]) \in 1..12
        /\ DecimalValue(parts[3])
               \in 1..DaysInMonth(DecimalValue(parts[1]),
                                  DecimalValue(parts[2]))

\* fetch_all_events from its standard approach on: the pages are fetched
\* and the clauses that are not special are applied
FetchStandard(fetched, other) ==
    IF fetched.raised THEN Raised
    ELSE Returned(Filter(Advanced, other, fetched.events),
                  Filter(Advanced, other, fetched.bumps))

\* fetch_all_events after its first phase, data being what the special
\* filters gave
FetchAfterSpecial(data, other, up) ==
    IF data.raised THEN Raised
    ELSE IF data.handled THEN Returned(data.events, data.bumps)
    ELSE FetchStandard(FetchAllEventsV2(up), other)

\* fetch_all_events of a fetcher with this plan
FetchWithPlan(plan, up) ==
    IF plan.raised THEN Raised
    ELSE FetchAfterSpecial(
             SpecialHandling(up, SelectSeq(plan.cf, NeedsSpecialHandling)),
             SelectSeq(plan.cf, LAMBDA c : ~NeedsSpecialHandling(c)), up)

\* AdvancedEventFetcher(..., filter_expression=expr).fetch_all_events() of a
\* fetcher that no other caller uses
FetchOnce(expr, up) == FetchWithPlan(NewPlan(Advanced, expr), up)

\* errors.append({"query_index": i, ..., "status": status})
QueryError(i, status) == [query_index |-> i, status |-> status]

\* results.append({"query_index": i, ..., "status": "success"})
QueryResult(i, area, total_events) ==
    [query_index |-> i, area |-> area, total_events |-> total_events,
     status |-> "success"]

\* the query goes to errors
Failed(i, status, c) ==
    [to |-> "errors", entry |-> QueryError(i, status), cache |-> c]

\* the loop body from the fetch on: events_data is what fetch_all_events
\* gave, or the exception that left it
ProcessFetched(i, area, events_data, c) ==
    IF events_data.raised THEN Failed(i, "error", c)
    ELSE [to |-> "results",
          entry |-> QueryResult(i, area, Len(events_data.events)),
          cache |-> c]

\* the loop body from int(area) on
ProcessArea(i, query, area, c, up) ==
    IF ~IsInt(area) THEN Failed(i, "validation_error", c)
    ELSE IF ~(/\ IsDate(QueryGet(query, "start_date"))
              /\ IsDate(QueryGet(query, "end_date")))
    THEN Failed(i, "validation_error", c)
    ELSE ProcessFetched(i, DecimalValue(Strip(area)),
                        FetchOnce(QueryGet(query, "filter"),
                                  IF IncludeBumps(query) THEN up
                                  ELSE WithoutBumps(up)),
                        c)

\* the loop body after area_lookup = get_area_id(area, country)
ProcessLookup(i, query, area_lookup, up) ==
    IF ~area_lookup.result.found
    THEN Failed(i, "area_not_found", area_lookup.cache)
    ELSE ProcessArea(i, query, area_lookup.result.area_id,
                     area_lookup.cache, up)

\* the body of the loop for queries[i]: the entry it appends, the list it
\* appends to, and the area cache after it
ProcessQuery(i, query, c, up) ==
    IF RequiredFields \ DOMAIN query # {}
    THEN Failed(i, "validation_error", c)
    ELSE IF query["area"] # <<>> /\ ~IsDigit(query["area"])
    THEN ProcessLookup(i, query,
                       GetAreaId(c, query["area"],
                                 IF "country" \in DOMAIN query
                                 THEN query["country"] ELSE S("au")),
                       up)
    ELSE ProcessArea(i, query, query["area"], c, up)

\* no request is being answered
NoBatch ==
    [is_json |-> FALSE, queries |-> <<>>, pc |-> "idle", i |-> 0,
     results |-> <<>>, errors |-> <<>>, code |-> 0,
     batch_info |-> [requested_queries |-> 0, successful_queries |-> 0,
                     failed_queries |-> 0, total_events_found |-> 0]]

\* a request that has reached the handler
Received(is_json, queries) ==
    [NoBatch EXCEPT !.is_json = is_json, !.queries = queries,
                    !.pc = "received"]

\* area names and the areas the upstream API knows, by (name, country)
Sydney == <<S("sydney"), S("au")>>

Ex == <<S("x"), S("au")>>

AreaNames == {S("sydney"), S("X"), S("atlantis")}

AreaIds == {S("1"), S("2")}

ApiTables ==
    {EmptyFcn} \cup {Sydney :> a : a \in AreaIds}
        \cup {(Sydney :> a) @@ (Ex :> b) : a \in AreaIds, b \in AreaIds}

\* the rows of table area_cache when the service starts
CacheTables == {EmptyFcn, Sydney :> S("1"), (Sydney :> S("1")) @@ (Ex :> S("2"))}

\* the module after load_cache_from_db, with no refresh so far
StartedCache(rows, api) ==
    [area_cache |-> LoadCacheFromDb(rows), last_full_refresh |-> 0,
     rows |-> rows, metadata |-> 0, pending |-> EmptyFcn, api |-> api,
     now |-> 0, refresh |-> NoRefresh]

NoCache == StartedCache(EmptyFcn, EmptyFcn)

\* dates as the request writes them
Date(y, m, d) == y \o S("-") \o m \o S("-") \o d

Year == <<"2", "0", "2", "5">>

Aug12 == Date(Year, <<"0", "8">>, <<"1", "2">>)

Aug16 == Date(Year, <<"8">>, <<"1", "6">>)

Feb30 == Date(Year, <<"0", "2">>, <<"3", "0">>)

Query(area, start_date, end_date) ==
    ("area" :> area) @@ ("start_date" :> start_date)
        @@ ("end_date" :> end_date)

Good == Query(S("1"), Aug12, Aug16)

NoEndDate == ("area" :> S("1")) @@ ("start_date" :> Aug12)

BatchQueries ==
    {Good, NoEndDate,
     Query(S("sydney"), Aug12, Aug16),
     Query(S("X"), Aug12, Aug16),
     Query(S("atlantis"), Aug12, Aug16),
     Query(<<>>, Aug12, Aug16),
     Query(S("1"), Aug12, Feb30),
     Good @@ ("include_bumps" :> TRUE),
     Good @@ ("filter" :> Clause("genre", "contains_none", S("jazz"))),
     Good @@ ("filter" :> Clause("price", "gt", Ten)),
     Good @@ ("filter" :> Clause("price", "gt", Ten))
          @@ ("include_bumps" :> TRUE)}

\* lists of the longest length the handler accepts, and of one more
LongBatches ==
    {[k \in 1..n |-> IF k % m = 0 THEN NoEndDate ELSE Good] :
         n \in {MaxQueries, MaxQueries + 1}, m \in {1, 2, MaxQueries + 2}}

BatchUpstreams ==
    {Upstream(<<[events |-> <<Cheap, Mid>>, bumps |-> <<>>]>>, 0, f) :
         f \in {NeverFails, [page |-> 1, kind |-> "transport"]}}

\* no request to the service is in progress
NoService ==
    /\ batch = NoBatch
    /\ cache = NoCache

-----------------------------------------------------------------------------
(* Actions *)

\* AdvancedFilterExpression(expression) and its subclasses
Construct ==
    /\ pc = "new"
    /\ LET st == NewPlan(cls, expression)
       IN  /\ graphql_filters' = st.gf
           /\ client_filters' = st.cf
           /\ pc' = IF st.raised THEN "raised" ELSE "constructed"
    /\ UNCHANGED <<cls, expression, events, filtered, event_values, operator,
                   filter_values, matches>>
    /\ UNCHANGED fetchVars
    /\ UNCHANGED serviceVars

\* plan.apply_client_filters(events)
ApplyFilters ==
    /\ pc = "constructed"
    /\ filtered' = Filter(cls, client_filters, events)
    /\ pc' = "filtered"
    /\ UNCHANGED <<cls, expression, graphql_filters, client_filters, events,
                   event_values, operator, filter_values, matches>>
    /\ UNCHANGED fetchVars
    /\ UNCHANGED serviceVars

\* plan.apply_client_filters(filtered): the plan is applied to the list it
\* returned
Refilter ==
    /\ pc = "filtered"
    /\ filtered' = Filter(cls, client_filters, filtered)
    /\ pc' = "refiltered"
    /\ UNCHANGED <<cls, expression, graphql_filters, client_filters, events,
                   event_values, operator, filter_values, matches>>
    /\ UNCHANGED fetchVars
    /\ UNCHANGED serviceVars

\* plan._apply_filter_operator(event_values, operator, filter_values, 'AND')
ApplyOperator ==
    /\ pc = "call"
    /\ matches' = Evaluate(cls, event_values, operator, filter_values, "AND")
    /\ pc' = "returned"
    /\ UNCHANGED <<cls, expression, graphql_filters, client_filters, events,
                   filtered, event_values, operator, filter_values>>
    /\ UNCHANGED fetchVars
    /\ UNCHANGED serviceVars

\* EnhancedEventFetcher(areas, listing_date_gte, ..., filter_expression):
\* the plan is built, then the payload
ConstructFetcher ==
    /\ pc = "new"
    /\ LET st == NewPlan(cls, expression)
       IN  /\ graphql_filters' = st.gf
           /\ client_filters' = st.cf
           /\ payload' = IF st.raised THEN payload
                         ELSE GeneratePayload(fetcher, expression, st.gf)
           /\ pc' = IF st.raised THEN "raised" ELSE "constructed"
    /\ UNCHANGED <<cls, expression, events, filtered, event_values, operator,
                   filter_values, matches, fetcher, upstream, frames>>
    /\ UNCHANGED serviceVars

\* fetch_all_events, up to the standard approach: the client filters are
\* split and the special ones are handled by the managers
FetchAllEvents ==
    \E t \in DOMAIN frames :
        /\ pc \notin {"new", "raised"}
        /\ frames[t].pc = "idle"
        /\ LET cf == IF expression # <<>> THEN client_filters ELSE <<>>
               special == IF cls = Advanced
                          THEN SelectSeq(cf, NeedsSpecialHandling) ELSE <<>>
               other == IF cls = Advanced
                        THEN SelectSeq(cf, LAMBDA c : ~NeedsSpecialHandling(c))
                        ELSE <<>>
               data == SpecialHandling(upstream, special)
               split == [frames[t] EXCEPT !.special_filters = special,
                                          !.other_filters = other]
           IN  frames' = [frames EXCEPT ![t] =
                   IF data.raised THEN [split EXCEPT !.pc = "raised"]
                   ELSE IF data.handled
                        THEN [split EXCEPT !.pc = "done",
                                           !.all_events = data.events,
                                           !.all_bumps = data.bumps]
                        ELSE IF cls = Advanced THEN [split EXCEPT !.pc = "swap"]
                        ELSE [split EXCEPT !.pc = "get_events", !.page = 1]]
        /\ UNCHANGED <<cls, expression, graphql_filters, client_filters, events,
                       filtered, event_values, operator, filter_values, matches,
                       pc, fetcher, payload, upstream>>
        /\ UNCHANGED serviceVars

\* original_client_filters = self.filter_expr.client_filters;
\* self.filter_expr.client_filters = other_filters; page = 1
SwapFilters ==
    \E t \in DOMAIN frames :
        /\ frames[t].pc = "swap"
        /\ client_filters' =
               IF expression # <<>> /\ frames[t].special_filters # <<>>
               THEN frames[t].other_filters ELSE client_filters
        /\ frames' = [frames EXCEPT ![t].original_client_filters =
                                        IF expression # <<>> THEN client_filters
                                        ELSE <<>>,
                                    ![t].page = 1,
                                    ![t].pc = "get_events"]
        /\ UNCHANGED <<cls, expression, graphql_filters, events, filtered,
                       event_values, operator, filter_values, matches, pc,
                       fetcher, payload, upstream>>
        /\ UNCHANGED serviceVars

\* get_events: self.payload["variables"]["page"] = page_number
SetPage ==
    \E t \in DOMAIN frames :
        /\ frames[t].pc = "get_events"
        /\ payload' = [payload EXCEPT !.page = frames[t].page]
        /\ frames' = [frames EXCEPT ![t].pc = "post"]
        /\ UNCHANGED <<cls, expression, graphql_filters, client_filters, events,
                       filtered, event_values, operator, filter_values, matches,
                       pc, fetcher, upstream>>
        /\ UNCHANGED serviceVars

\* get_events: requests.post(..., json=self.payload) and the rest of the
\* loop body
Post ==
    \E t \in DOMAIN frames :
        /\ frames[t].pc = "post"
        /\ LET result == GetEvents(upstream, payload.page)
               asked == [frames[t] EXCEPT !.requested = Append(@, payload.page)]
           IN  frames' = [frames EXCEPT ![t] =
                   IF result.raised THEN [asked EXCEPT !.pc = "raised"]
                   ELSE IF result.events = <<>> /\ result.bumps = <<>>
                        THEN [asked EXCEPT !.pc = "apply"]
                        ELSE [asked EXCEPT
                                  !.all_events = @ \o result.events,
                                  !.all_bumps = @ \o result.bumps,
                                  !.page = @ + 1,
                                  !.pc = IF AtSafetyLimit(frames[t].page + 1)
                                         THEN "apply" ELSE "get_events"]]
        /\ UNCHANGED <<cls, expression, graphql_filters, client_filters, events,
                       filtered, event_values, operator, filter_values, matches,
                       pc, fetcher, payload, upstream>>
        /\ UNCHANGED serviceVars

\* the client-side filters are applied to what the loop collected
ApplyToFetched ==
    \E t \in DOMAIN frames :
        /\ frames[t].pc = "apply"
        /\ LET applies == IF cls = Advanced
                          THEN expression # <<>> /\ frames[t].other_filters # <<>>
                          ELSE expression # <<>>
           IN  frames' = [frames EXCEPT
                   ![t].all_events =
                       IF applies THEN Filter(cls, client_filters, @) ELSE @,
                   ![t].all_bumps =
                       IF applies THEN Filter(cls, client_filters, @) ELSE @,
                   ![t].pc = IF cls = Advanced THEN "restore" ELSE "done"]
        /\ UNCHANGED <<cls, expression, graphql_filters, client_filters, events,
                       filtered, event_values, operator, filter_values, matches,
                       pc, fetcher, payload, upstream>>
        /\ UNCHANGED serviceVars

\* self.filter_expr.client_filters = original_client_filters
RestoreFilters ==
    \E t \in DOMAIN frames :
        /\ frames[t].pc = "restore"
        /\ client_filters' = IF expression # <<>>
                             THEN frames[t].original_client_filters
                             ELSE client_filters
        /\ frames' = [frames EXCEPT ![t].pc = "done"]
        /\ UNCHANGED <<cls, expression, graphql_filters, events, filtered,
                       event_values, operator, filter_values, matches, pc,
                       fetcher, payload, upstream>>
        /\ UNCHANGED serviceVars

\* the caller takes the result, or the exception, and may call again
Return ==
    \E t \in DOMAIN frames :
        /\ frames[t].pc \in {"done", "raised"}
        /\ frames' = [frames EXCEPT ![t] = NoFrame]
        /\ UNCHANGED <<cls, expression, graphql_filters, client_filters, events,
                       filtered, event_values, operator, filter_values, matches,
                       pc, fetcher, payload, upstream>>
        /\ UNCHANGED serviceVars

\* batch_events_v3, up to the loop: the checks of the request
BatchEventsV3 ==
    /\ batch.pc = "received"
    /\ batch' = IF \/ ~batch.is_json
                   \/ batch.queries = <<>>
                   \/ TooManyQueries(batch.queries)
                THEN [batch EXCEPT !.code = 400, !.pc = "responded"]
                ELSE [batch EXCEPT !.pc = "loop"]
    /\ UNCHANGED <<cls, expression, graphql_filters, client_filters, events,
                   filtered, event_values, operator, filter_values, matches,
                   pc, fetchVars, cache>>

\* one iteration of: for i, query in enumerate(queries)
NextQuery ==
    /\ batch.pc = "loop"
    /\ batch.i < Len(batch.queries)
    /\ LET done == ProcessQuery(batch.i, batch.queries[batch.i + 1], cache,
                                upstream)
       IN  /\ batch' = [batch EXCEPT
                           !.i = @ + 1,
                           !.results = IF done.to = "results"
                                       THEN Append(@, done.entry) ELSE @,
                           !.errors = IF done.to = "errors"
                                      THEN Append(@, done.entry) ELSE @]
           /\ cache' = done.cache
    /\ UNCHANGED <<cls, expression, graphql_filters, client_filters, events,
                   filtered, event_values, operator, filter_values, matches,
                   pc, fetchVars>>

RECURSIVE TotalEvents(_)
\* sum(result.get("total_events", 0) for result in results)
TotalEvents(results) ==
    IF results = <<>> THEN 0
    ELSE Head(results).total_events + TotalEvents(Tail(results))

\* batch_events_v3 after the loop: the response
BatchResponse ==
    /\ batch.pc = "loop"
    /\ batch.i = Len(batch.queries)
    /\ batch' = [batch EXCEPT
                    !.code = 200,
                    !.pc = "responded",
                    !.batch_info =
                        [requested_queries |-> Len(batch.queries),
                         successful_queries |-> Len(batch.results),
                         failed_queries |-> Len(batch.errors),
                         total_events_found |-> TotalEvents(batch.results)]]
    /\ UNCHANGED <<cls, expression, graphql_filters, client_filters, events,
                   filtered, event_values, operator, filter_values, matches,
                   pc, fetchVars, cache>>

\* a request handler calls get_area_id
GetAreaIdCall ==
    /\ \E area_name \in AreaNames :
           cache' = GetAreaId(cache, area_name, S("au")).cache
    /\ UNCHANGED <<cls, expression, graphql_filters, client_filters, events,
                   filtered, event_values, operator, filter_values, matches,
                   pc, fetchVars, batch>>

\* refresh_cache, up to the loop: the areas of the database are read
RefreshCache ==
    /\ cache.refresh.pc \in {"idle", "returned"}
    /\ cache.now < MaxRefreshes
    /\ cache' = [cache EXCEPT !.refresh =
                    IF DOMAIN cache.rows = {}
                    THEN [NoRefresh EXCEPT !.pc = "returned",
                                           !.status = "success"]
                    ELSE [NoRefresh EXCEPT
                              !.pc = "areas",
                              !.existing_areas = FetchAll(DOMAIN cache.rows)]]
    /\ UNCHANGED <<cls, expression, graphql_filters, client_filters, events,
                   filtered, event_values, operator, filter_values, matches,
                   pc, fetchVars, batch>>

\* refresh_cache, one area: the API is asked, the memory cache is written
\* and the UPDATE is executed on the open connection
RefreshArea ==
    /\ cache.refresh.pc = "areas"
    /\ cache.refresh.existing_areas # <<>>
    /\ LET area == Head(cache.refresh.existing_areas)
           area_id == ApiAreaId(cache.api, area[1], area[2])
           rest == [cache EXCEPT !.refresh.existing_areas = Tail(@)]
       IN  cache' =
               IF area_id # <<>>
               THEN [rest EXCEPT
                        !.area_cache =
                            DictSet(@, CacheKey(area[1], area[2]), area_id),
                        !.pending = DictSet(@, area, area_id),
                        !.refresh.updated_count = @ + 1]
               ELSE [rest EXCEPT !.refresh.error_count = @ + 1]
    /\ UNCHANGED <<cls, expression, graphql_filters, client_filters, events,
                   filtered, event_values, operator, filter_values, matches,
                   pc, fetchVars, batch>>

\* conn.commit(): the executed UPDATEs reach the table
Commit(rows, pending) ==
    [k \in DOMAIN rows |-> IF k \in DOMAIN pending THEN pending[k] ELSE rows[k]]

\* refresh_cache after the loop: update_full_refresh_timestamp() on a
\* connection of its own, then conn.commit(); a connection that is dropped
\* with its UPDATEs not committed loses them
RefreshFinish ==
    /\ cache.refresh.pc = "areas"
    /\ cache.refresh.existing_areas = <<>>
    /\ LET stamped == [cache EXCEPT !.now = @ + 1,
                                    !.last_full_refresh = cache.now + 1,
                                    !.pending = EmptyFcn,
                                    !.refresh.pc = "returned"]
       IN  cache' =
               IF WriteLocked(cache)
               THEN [stamped EXCEPT !.refresh.status = "error"]
               ELSE [stamped EXCEPT
                        !.metadata = cache.now + 1,
                        !.rows = Commit(cache.rows, cache.pending),
                        !.refresh.status = "success"]
    /\ UNCHANGED <<cls, expression, graphql_filters, client_filters, events,
                   filtered, event_values, operator, filter_values, matches,
                   pc, fetchVars, batch>>

\* the upstream API gives an area another id, forgets it or learns it
ApiChange ==
    /\ \E api \in ApiTables :
           /\ api # cache.api
           /\ cache' = [cache EXCEPT !.api = api]
    /\ UNCHANGED <<cls, expression, graphql_filters, client_filters, events,
                   filtered, event_values, operator, filter_values, matches,
                   pc, fetchVars, batch>>

-----------------------------------------------------------------------------
(* Specifications *)

\* construction of a plan from an expression
InitParse ==
    /\ cls \in PlanClasses
    /\ expression \in ParseExpressions
    /\ graphql_filters = EmptyFcn
    /\ client_filters = <<>>
    /\ events = <<>>
    /\ filtered = <<>>
    /\ event_values = OtherValue
    /\ operator = <<>>
    /\ filter_values = <<>>
    /\ matches = FALSE
    /\ pc = "new"
    /\ NoFetch
    /\ NoService

NextParse == Construct

SpecParse == InitParse /\ [][NextParse]_vars

\* construction of an AdvancedFilterExpression, then one evaluation
InitFilter ==
    /\ cls = Advanced
    /\ expression \in FilterExpressions
    /\ graphql_filters = EmptyFcn
    /\ client_filters = <<>>
    /\ events \in SeqsUpTo(FilterEvents, MaxEvents)
    /\ filtered = <<>>
    /\ event_values = OtherValue
    /\ operator = <<>>
    /\ filter_values = <<>>
    /\ matches = FALSE
    /\ pc = "new"
    /\ NoFetch
    /\ NoService

NextFilter == Construct \/ ApplyFilters \/ Refilter

SpecFilter == InitFilter /\ [][NextFilter]_vars

\* one call of the clause evaluator
InitEval ==
    /\ cls \in {Advanced, AdvancedSearch}
    /\ expression = <<>>
    /\ graphql_filters = EmptyFcn
    /\ client_filters = <<>>
    /\ events = <<>>
    /\ filtered = <<>>
    /\ event_values \in EvalValues
    /\ operator \in EvalOperators
    /\ filter_values \in EvalOperands
    /\ matches = FALSE
    /\ pc = "call"
    /\ NoFetch
    /\ NoService

NextEval == ApplyOperator

SpecEval == InitEval /\ [][NextEval]_vars

\* one call of the clause evaluator with a numeric operator
InitNumeric ==
    /\ cls \in {Advanced, AdvancedSearch}
    /\ expression = <<>>
    /\ graphql_filters = EmptyFcn
    /\ client_filters = <<>>
    /\ events = <<>>
    /\ filtered = <<>>
    /\ event_values \in NumericValues
    /\ operator \in NumericOperators
    /\ filter_values \in NumericOperands
    /\ matches = FALSE
    /\ pc = "call"
    /\ NoFetch
    /\ NoService

SpecNumeric == InitNumeric /\ [][NextEval]_vars

\* construction of an AdvancedFilterExpression or a FilterExpression, one
\* evaluation, and one evaluation of its result
InitScenario ==
    /\ cls \in {Advanced, Basic}
    /\ expression \in ScenarioExpressions
    /\ graphql_filters = EmptyFcn
    /\ client_filters = <<>>
    /\ events \in SeqsUpTo(ScenarioEvents, MaxEvents)
    /\ filtered = <<>>
    /\ event_values = OtherValue
    /\ operator = <<>>
    /\ filter_values = <<>>
    /\ matches = FALSE
    /\ pc = "new"
    /\ NoFetch
    /\ NoService

SpecScenario == InitScenario /\ [][NextFilter]_vars

\* the state of a fetcher before its construction
NewFetcher ==
    /\ graphql_filters = EmptyFcn
    /\ client_filters = <<>>
    /\ filtered = <<>>
    /\ event_values = OtherValue
    /\ operator = <<>>
    /\ filter_values = <<>>
    /\ matches = FALSE
    /\ pc = "new"
    /\ payload = NoPayload

\* one caller of a fetcher: construction, then fetch_all_events and
\* apply_client_filters calls one after the other
InitFetch ==
    /\ NewFetcher
    /\ NoService
    /\ cls \in {Advanced, Basic}
    /\ events = <<Cheap, Mid>>
    /\ frames = [t \in {1} |-> NoFrame]
    /\ \/ /\ expression \in FetchExpressions
          /\ fetcher = Fetcher(<<>>, <<>>, <<>>)
          /\ upstream \in ShortUpstreams
       \/ /\ expression \in PayloadExpressions
          /\ fetcher \in Fetchers
          /\ upstream = Upstream(<<>>, 1, NeverFails)
       \/ /\ expression \in LongExpressions
          /\ fetcher = Fetcher(<<>>, <<>>, <<>>)
          /\ upstream \in LongUpstreams

NextFetch ==
    \/ ConstructFetcher
    \/ ApplyFilters
    \/ FetchAllEvents
    \/ SwapFilters
    \/ SetPage
    \/ Post
    \/ ApplyToFetched
    \/ RestoreFilters
    \/ Return

SpecFetch == InitFetch /\ [][NextFetch]_vars

\* two threads call fetch_all_events of one fetcher, once each, while a third
\* calls apply_client_filters of its plan
InitShared ==
    /\ NewFetcher
    /\ NoService
    /\ cls \in {Advanced, Basic}
    /\ events = <<Cheap, Mid>>
    /\ frames = [t \in {1, 2} |-> NoFrame]
    /\ expression \in SharedExpressions
    /\ fetcher = Fetcher(<<>>, <<>>, <<>>)
    /\ upstream \in SharedUpstreams

NextShared ==
    \/ ConstructFetcher
    \/ ApplyFilters
    \/ FetchAllEvents
    \/ SwapFilters
    \/ SetPage
    \/ Post
    \/ ApplyToFetched
    \/ RestoreFilters

SpecShared == InitShared /\ [][NextShared]_vars

\* no plan and no fetcher is in use
NoPlan ==
    /\ NewFetcher
    /\ cls = Advanced
    /\ expression = <<>>
    /\ events = <<>>
    /\ fetcher = Fetcher(<<>>, <<>>, <<>>)
    /\ frames = <<>>

\* one request to /v3/events/batch
InitBatch ==
    /\ NoPlan
    /\ upstream \in BatchUpstreams
    /\ cache \in {StartedCache(rows, (Sydney :> S("1")) @@ (Ex :> S("2"))) :
                      rows \in {EmptyFcn, Sydney :> S("1")}}
    /\ \/ batch \in {Received(TRUE, q) :
                         q \in SeqsUpTo(BatchQueries, MaxBatch) \cup LongBatches}
       \/ batch = Received(FALSE, <<Good>>)

NextBatch == BatchEventsV3 \/ NextQuery \/ BatchResponse

SpecBatch == InitBatch /\ [][NextBatch]_vars

\* the area cache of a running service: lookups by request handlers, the
\* refresh by the background thread or on request, and the upstream API
\* changing
InitCache ==
    /\ NoPlan
    /\ upstream = Upstream(<<>>, 0, NeverFails)
    /\ batch = NoBatch
    /\ cache \in {StartedCache(rows, api) :
                      rows \in CacheTables, api \in ApiTables}

NextCache ==
    \/ GetAreaIdCall
    \/ RefreshCache
    \/ RefreshArea
    \/ RefreshFinish
    \/ ApiChange

SpecCache == InitCache /\ [][NextCache]_vars

-----------------------------------------------------------------------------
(* Properties *)

\* the truth value of one clause of the plan for one event
ClauseTrue(c, e) ==
    ApplyFilterOperator(ListValue(GetEventFieldValues(e, c.field)),
                        c.operator, c.values, c.logical_op)

AllClausesTrue(e) ==
    \A i \in DOMAIN client_filters : ClauseTrue(client_filters[i], e)

C2_ConstructionNeverRaises == pc # "raised"

\* C3: an event passes the plan iff the left-to-right fold of its clauses is
\* true: AND and-s the clause with the accumulator, OR or-s it, NOT and-s
\* its negation.
C3_FilterFoldsLogicalOps ==
    pc = "filtered" =>
        filtered = SelectSeq(events,
                             LAMBDA e : FoldClauses(client_filters, e, TRUE))

\* the parts of the expression the parser looks at
RECURSIVE StripParts(_)
StripParts(parts) ==
    IF parts = <<>> THEN <<>>
    ELSE <<Strip(Head(parts))>> \o StripParts(Tail(parts))

IsClausePart(part) ==
    part \notin {S("AND"), S("OR"), S("NOT")} /\ Contains(part, ":")

\* the clause is one the upstream API is asked to evaluate
Delegable(part) ==
    \/ ClauseOperator(part) \in {S("eq"), S("any")}
    \/ ClauseField(part) = S("genre")
       /\ ClauseOperator(part) = S("contains_any")

ClientClauseParts(expr) ==
    SelectSeq(StripParts(ReSplit(expr)),
              LAMBDA part : IsClausePart(part) /\ ~Delegable(part))

ServerClauseParts(expr) ==
    SelectSeq(StripParts(ReSplit(expr)),
              LAMBDA part : IsClausePart(part) /\ Delegable(part))

\* C4: in a constructed AdvancedFilterExpression the clauses whose operator
\* is not eq or any (and that are not genre:contains_any) are the client
\* filters, in expression order; every other clause has its field in the
\* server-side mapping and is in no client filter; every descriptor of the
\* mapping comes from a clause with eq (stored under eq) or with any or
\* genre:contains_any (stored under any).
C4_ClausePlacedOnce ==
    (pc = "constructed" /\ cls = Advanced) =>
        LET client == ClientClauseParts(expression)
            server == ServerClauseParts(expression)
        IN  /\ Len(client_filters) = Len(client)
            /\ \A i \in DOMAIN client :
                   /\ client_filters[i].field = ClauseField(client[i])
                   /\ client_filters[i].operator = ClauseOperator(client[i])
                   /\ Join(client_filters[i].values, S(","))
                          = ClauseValues(client[i])
            /\ \A i \in DOMAIN server :
                   ClauseField(server[i]) \in DOMAIN graphql_filters
            /\ \A f \in DOMAIN graphql_filters :
                   \E i \in DOMAIN server :
                       /\ ClauseField(server[i]) = f
                       /\ DOMAIN graphql_filters[f] =
                              {IF ClauseOperator(server[i]) = S("eq")
                               THEN "eq" ELSE "any"}

\* C4 witness: genre:contains_any went to the server-side mapping under
\* any, another clause went to the client filters.
C4_Witness ==
    /\ pc = "constructed"
    /\ cls = Advanced
    /\ client_filters # <<>>
    /\ S("genre") \in DOMAIN graphql_filters
    /\ DOMAIN graphql_filters[S("genre")] = {"any"}
    /\ \E i \in DOMAIN ServerClauseParts(expression) :
           ClauseOperator(ServerClauseParts(expression)[i])
               = S("contains_any")

C5Fields == {"genre", "artists", "type"}

C5Values == {S("techno"), S("house"), S("artist"), <<"x", " ", "y">>}

\* C5: the expression f:eq:v alone gives the server-side mapping
\* {f: {eq: v}} and no client filter.
C5_SingleEqClause ==
    \A f \in C5Fields : \A v \in C5Values :
        (pc = "constructed" /\ cls = Advanced
         /\ expression = Clause(f, "eq", v)) =>
            /\ graphql_filters = (S(f) :> ("eq" :> v))
            /\ client_filters = <<>>

\* C5 witness: genre:eq:techno has been parsed.
C5_Witness ==
    /\ pc = "constructed"
    /\ cls = Advanced
    /\ expression = Clause("genre", "eq", S("techno"))
    /\ DOMAIN graphql_filters = {S("genre")}

\* the set of the elements of a list
Range(list) == {list[i] : i \in DOMAIN list}

\* the operand with index j of the call, as a one-operand list
Operand(j) == <<filter_values[j]>>

\* the evaluator of the plan's class called on the same values with another
\* operator or other operands
Again(op, operands) == Evaluate(cls, event_values, op, operands, "AND")

\* C6: when the normalized values of the record are exactly the non-empty
\* operand set, eq, in, any, contains_any and contains_all are true and ne,
\* nin and contains_none are false.
C6_ExactSetOperators ==
    (/\ pc = "returned"
     /\ cls = Advanced
     /\ Range(Normalize(AsList(event_values))) = Range(Normalize(filter_values))
     /\ Normalize(filter_values) # <<>>) =>
        /\ operator \in {S("eq"), S("in"), S("any"), S("contains_any"),
                         S("contains_all")} => matches
        /\ operator \in {S("ne"), S("nin"), S("contains_none")} => ~matches

\* C7: when the value list extracted from the record is empty, nin and
\* contains_none are true and every other operator of the operator set is
\* false, for every operand list.
C7_EmptyValuesAreFalse ==
    (pc = "returned" /\ event_values = ListValue(<<>>)) =>
        /\ operator \in {S("nin"), S("contains_none")} => matches
        /\ operator \in {S("eq"), S("ne"), S("in"), S("any"), S("all"),
                         S("contains_all"), S("contains_any"), S("has"),
                         S("starts"), S("ends"), S("gt"), S("lt"), S("gte"),
                         S("lte"), S("between")} => ~matches

\* C8: contains_none is the negation of contains_any on the same values and
\* operands, in both evaluators.
C8_ContainsNoneNegatesContainsAny ==
    (pc = "returned" /\ operator = S("contains_none")) =>
        matches = ~Again(S("contains_any"), filter_values)

\* C8 witness: contains_none was false for two operands, one of them among
\* the values and one not.
C8_Witness ==
    /\ pc = "returned"
    /\ operator = S("contains_none")
    /\ ~matches
    /\ Len(filter_values) = 2
    /\ Again(S("contains_none"), Operand(1))
           # Again(S("contains_none"), Operand(2))

\* the operand with index j holds more than white space
ProperOperand(j) == Strip(filter_values[j]) # <<>>

\* C9 as stated: contains_all with the operands a, b is true iff has is true
\* for a and true for b (operands that hold more than white space).
C9_ContainsAllIsHasAndHas ==
    (/\ pc = "returned"
     /\ cls = Advanced
     /\ operator = S("contains_all")
     /\ Len(filter_values) = 2
     /\ ProperOperand(1)
     /\ ProperOperand(2)) =>
        matches = (Again(S("has"), Operand(1)) /\ Again(S("has"), Operand(2)))

\* C9 amended: contains_all with the operands a, b is true iff contains_all
\* with the one operand a and contains_all with the one operand b are true;
\* when a and b are not empty it implies has for a and has for b.
C9_ContainsAllDecomposes ==
    (/\ pc = "returned"
     /\ cls = Advanced
     /\ operator = S("contains_all")
     /\ Len(filter_values) = 2) =>
        /\ matches = (/\ Again(S("contains_all"), Operand(1))
                      /\ Again(S("contains_all"), Operand(2)))
        /\ (matches /\ filter_values[1] # <<>> /\ filter_values[2] # <<>>) =>
               (Again(S("has"), Operand(1)) /\ Again(S("has"), Operand(2)))

\* C9 witness: contains_all was true for two different operands.
C9_Witness ==
    /\ pc = "returned"
    /\ cls = Advanced
    /\ operator = S("contains_all")
    /\ Len(filter_values) = 2
    /\ Normalize(Operand(1)) # Normalize(Operand(2))
    /\ Normalize(Operand(1)) # <<>>
    /\ Normalize(Operand(2)) # <<>>
    /\ matches

\* C10 as stated: contains_any with the operands a, b is true iff has is
\* true for a or true for b (operands that hold more than white space).
C10_ContainsAnyIsHasOrHas ==
    (/\ pc = "returned"
     /\ operator = S("contains_any")
     /\ Len(filter_values) = 2
     /\ ProperOperand(1)
     /\ ProperOperand(2)) =>
        matches = (Again(S("has"), Operand(1)) \/ Again(S("has"), Operand(2)))

\* C10 amended: contains_any with the operands a, b is true iff
\* contains_any with the one operand a or contains_any with the one operand
\* b is true; it implies has for a or has for b.
C10_ContainsAnyDecomposes ==
    (/\ pc = "returned"
     /\ operator = S("contains_any")
     /\ Len(filter_values) = 2) =>
        /\ matches = (\/ Again(S("contains_any"), Operand(1))
                      \/ Again(S("contains_any"), Operand(2)))
        /\ matches =>
               (Again(S("has"), Operand(1)) \/ Again(S("has"), Operand(2)))

\* C10 witness: contains_any was true because of its second operand alone.
C10_Witness ==
    /\ pc = "returned"
    /\ operator = S("contains_any")
    /\ Len(filter_values) = 2
    /\ matches
    /\ ~Again(S("contains_any"), Operand(1))
    /\ Again(S("contains_any"), Operand(2))

\* the values of the call as a list
CallValues == AsList(event_values)

\* the evaluator of the plan's class called on the one value v
AgainOn(v, op, operands) ==
    Evaluate(cls, ListValue(<<v>>), op, operands, "AND")

\* the call is between:lo,hi with two numeric bounds
BetweenCall ==
    /\ pc = "returned"
    /\ operator = S("between")
    /\ Len(filter_values) = 2
    /\ IsFloat(filter_values[1])
    /\ IsFloat(filter_values[2])

\* C11 as stated: for every value sequence and numeric bounds lo, hi,
\* between:lo,hi is true iff gte:lo and lte:hi are both true for the same
\* sequence.
C11_BetweenIsGteAndLte ==
    BetweenCall =>
        matches = (Again(S("gte"), Operand(1)) /\ Again(S("lte"), Operand(2)))

\* C11 amended: between:lo,hi implies gte:lo and lte:hi for the same
\* sequence; for a sequence of at most one value it is true iff both are
\* true; for a sequence of numeric values it is true iff gte:lo and lte:hi
\* are both true for one and the same value of the sequence.
C11_BetweenIsGteAndLteOfOneValue ==
    BetweenCall =>
        /\ matches =>
               (Again(S("gte"), Operand(1)) /\ Again(S("lte"), Operand(2)))
        /\ Len(CallValues) <= 1 =>
               matches = (/\ Again(S("gte"), Operand(1))
                          /\ Again(S("lte"), Operand(2)))
        /\ AllFloat(CallValues) =>
               matches = (\E i \in DOMAIN CallValues :
                              /\ AgainOn(CallValues[i], S("gte"), Operand(1))
                              /\ AgainOn(CallValues[i], S("lte"), Operand(2)))

\* C11 witness: between was false for two values of which one is at least
\* lo and the other at most hi.
C11_Witness ==
    /\ BetweenCall
    /\ Len(CallValues) = 2
    /\ ~matches
    /\ Again(S("gte"), Operand(1))
    /\ Again(S("lte"), Operand(2))

\* the text p is a number between the numbers lo and hi, both included
InRange(p, lo, hi) ==
    IsFloat(p) /\ Float(lo) =< Float(p) /\ Float(p) =< Float(hi)

\* the plan of price:between:lo,hi has been applied
PriceBetweenApplied(lo, hi) ==
    /\ pc = "filtered"
    /\ cls = Advanced
    /\ expression = Clause("price", "between", lo \o S(",") \o hi)

C13_ShortBetweenIsFalse ==
    (/\ pc = "returned"
     /\ operator = S("between")
     /\ Len(filter_values) < 2) => ~matches

\* the operands of the call that are not empty, as the evaluators read them
UsedOperands == Normalize(filter_values)

\* an operand the numeric operator reads is no number: the first one, for
\* between the first or the second
OperandNotNumeric ==
    \/ UsedOperands # <<>> /\ ~IsFloat(UsedOperands[1])
    \/ /\ operator = S("between")
       /\ Len(UsedOperands) >= 2
       /\ ~IsFloat(UsedOperands[2])

ValueNotNumeric == \E i \in DOMAIN CallValues : ~IsFloat(CallValues[i])

\* C14: under gt, lt, gte, lte and between the clause is false whenever an
\* operand or a value of the record is not a number; the evaluator returns
\* and does not raise.
C14_NotNumericIsFalse ==
    (/\ pc = "returned"
     /\ operator \in NumericOperators
     /\ (OperandNotNumeric \/ ValueNotNumeric)) => ~matches

\* the operators the evaluator of class c has a branch for
KnownOperators(c) ==
    IF c = Basic THEN {S("in"), S("nin"), S("eq"), S("ne")}
    ELSE {S("eq"), S("in"), S("nin"), S("has"), S("contains_all"),
          S("contains_any"), S("contains_none"), S("all"), S("gt"), S("lt"),
          S("gte"), S("lte"), S("between"), S("starts"), S("ends")}

KnownClauses ==
    SelectSeq(client_filters,
              LAMBDA c : c.operator \in KnownOperators(cls))

\* C15: a client clause whose operator the evaluator does not know is true
\* for every record: the plan returns what it returns without these
\* clauses, and all the records when it has no other client clause.
C15_UnknownOperatorKeepsAll ==
    pc = "filtered" =>
        /\ filtered = Filter(cls, KnownClauses, events)
        /\ KnownClauses = <<>> => filtered = events

\* C15 witness: artists:foo:x kept two records of which one has no artist.
C15_Witness ==
    /\ pc = "filtered"
    /\ cls = Advanced
    /\ expression = Clause("artists", "foo", S("x"))
    /\ Len(client_filters) = 1
    /\ Len(events) = 2
    /\ events[1].artists = <<>>
    /\ filtered = events

TextOperators ==
    {S("eq"), S("in"), S("nin"), S("has"), S("contains_all"),
     S("contains_any"), S("contains_none"), S("all"), S("starts"), S("ends")}

\* the ways a text is written differently: in upper case, with a leading
\* blank, with a trailing blank
Rewritings == {"upper", "lead", "trail"}

Rewrite(s, how) ==
    CASE how = "upper" -> Upper(s)
      [] how = "lead" -> S(" ") \o s
      [] how = "trail" -> s \o S(" ")

\* the list with its element i rewritten
RewriteAt(list, i, how) == [list EXCEPT ![i] = Rewrite(list[i], how)]

\* event_values with one of its texts rewritten
RewrittenValues ==
    IF event_values.kind = "list"
    THEN {ListValue(RewriteAt(event_values.val, i, how)) :
              i \in DOMAIN event_values.val, how \in Rewritings}
    ELSE IF event_values.kind = "str"
    THEN {StrValue(Rewrite(event_values.val, how)) : how \in Rewritings}
    ELSE {}

\* filter_values with one of its texts rewritten
RewrittenOperands ==
    {RewriteAt(filter_values, j, how) :
         j \in DOMAIN filter_values, how \in Rewritings}

\* C16: the result of a text operator does not change when one value of
\* the record or one operand is written in another case or with another
\* leading or trailing blank.
C16_TextOperatorsIgnoreCaseAndBlanks ==
    (pc = "returned" /\ cls = Advanced /\ operator \in TextOperators) =>
        /\ \A v \in RewrittenValues :
               Evaluate(cls, v, operator, filter_values, "AND") = matches
        /\ \A o \in RewrittenOperands :
               Evaluate(cls, event_values, operator, o, "AND") = matches

ArtistTexts == {S("x"), S("X"), S("w"), <<"x", " ", "y">>}

\* the plan of genre:contains_any:techno,house AND artists:has:s has been
\* applied
GenreAndArtistApplied(s) ==
    /\ pc = "filtered"
    /\ cls = Advanced
    /\ expression =
           Clause("genre", "contains_any", <<"techno", ",", "house">>)
               \o <<" ", "AND", " ">> \o Clause("artists", "has", s)

\* the record has an artist whose name holds s, whatever the case
HasArtistLike(e, s) ==
    \E i \in DOMAIN e.artists : IsSubstring(Lower(s), Lower(e.artists[i]))

\* C17: for genre:contains_any:G AND artists:has:s the client clauses keep
\* exactly the records with an artist whose name holds s as a sub-string,
\* whatever the case of either.
C17_HasKeepsArtistSubstring ==
    \A s \in ArtistTexts :
        GenreAndArtistApplied(s) =>
            filtered = SelectSeq(events, LAMBDA e : HasArtistLike(e, s))

\* C17 witness: artists:has:x kept the record whose artist is 'X y' and
\* removed the record whose artist is 'w'.
C17_Witness ==
    /\ GenreAndArtistApplied(S("x"))
    /\ Len(events) = 2
    /\ events[1].artists = <<(<<"X", " ", "y">>)>>
    /\ events[2].artists = <<S("w")>>
    /\ filtered = <<events[1]>>

\* C18: for an expression without a colon the construction does not raise,
\* the plan has no server-side descriptor and no client filter, and
\* apply_client_filters returns the list it is given.
C18_NoColonIsNoOp ==
    IndexOf(expression, ":", 1) = 0 =>
        /\ pc # "raised"
        /\ pc \in {"constructed", "filtered", "refiltered"} =>
               (graphql_filters = EmptyFcn /\ client_filters = <<>>)
        /\ pc \in {"filtered", "refiltered"} => filtered = events

\* C18 witness: the plan of 'genre-techno' returned the two records it was
\* given.
C18_Witness ==
    /\ pc = "filtered"
    /\ cls = Advanced
    /\ expression = S("genre-techno")
    /\ Len(events) = 2
    /\ events[1] # events[2]
    /\ filtered = events

\* C19: applying a plan to the list it returned returns that list.
C19_FilterIsIdempotent ==
    [][pc' = "refiltered" => filtered' = filtered]_vars

\* C19 witness: a plan that removed one of two records was applied to its
\* result.
C19_Witness ==
    /\ pc = "refiltered"
    /\ client_filters # <<>>
    /\ Len(events) = 2
    /\ Len(filtered) = 1

\* the descriptor a server-delegable clause stands for
DescriptorOf(part) ==
    IF ClauseOperator(part) = S("eq") THEN "eq" :> ClauseValues(part)
    ELSE "any" :> StripEach(SplitOn(ClauseValues(part), ","))

\* the index of the last of the clauses that names the field f
LastClauseOf(clauses, f) ==
    CHOOSE i \in DOMAIN clauses :
        /\ ClauseField(clauses[i]) = f
        /\ \A k \in DOMAIN clauses : ClauseField(clauses[k]) = f => k <= i

\* C20: in a constructed AdvancedFilterExpression the server-side mapping
\* holds, for every field that a server-delegable clause names, the one
\* descriptor of the last such clause of the expression and nothing of an
\* earlier one.
C20_LaterDescriptorReplaces ==
    (pc = "constructed" /\ cls = Advanced) =>
        LET server == ServerClauseParts(expression)
        IN  /\ DOMAIN graphql_filters =
                   {ClauseField(server[i]) : i \in DOMAIN server}
            /\ \A f \in DOMAIN graphql_filters :
                   graphql_filters[f] =
                       DescriptorOf(server[LastClauseOf(server, f)])

\* C20 witness: genre:eq:techno AND genre:eq:house left the descriptor of
\* the second clause.
C20_Witness ==
    /\ pc = "constructed"
    /\ cls = Advanced
    /\ expression = Clause("genre", "eq", S("techno"))
                        \o <<" ", "AND", " ">>
                        \o Clause("genre", "eq", S("house"))
    /\ graphql_filters = (S("genre") :> ("eq" :> S("house")))

\* C24: in a constructed AdvancedFilterExpression a clause f:eq:v that
\* directly follows a NOT token, and is the only clause naming f, leaves no
\* descriptor for f in the server-side mapping.
C24_NotKeepsEqOffServer ==
    (pc = "constructed" /\ cls = Advanced) =>
        LET parts == StripParts(ReSplit(expression))
        IN  \A i \in DOMAIN parts :
                (/\ i > 1
                 /\ parts[i - 1] = S("NOT")
                 /\ IsClausePart(parts[i])
                 /\ ClauseOperator(parts[i]) = S("eq")
                 /\ \A k \in DOMAIN parts :
                        (k # i /\ IsClausePart(parts[k]))
                            => ClauseField(parts[k]) # ClauseField(parts[i]))
                    => ClauseField(parts[i]) \notin DOMAIN graphql_filters

\* the client clauses of the plan that are an 'in' introduced by NOT
NotInClauses ==
    {i \in DOMAIN client_filters :
         /\ client_filters[i].operator = S("in")
         /\ client_filters[i].logical_op = "NOT"}

\* C25: a FilterExpression clause f:in:v1,...,vn introduced by NOT keeps
\* only records whose value of f is none of v1..vn, and the documented
\* expression area:eq:1 AND NOT genre:in:jazz,ambient is parsed into the one
\* client clause genre / in / [jazz, ambient] with logical_op NOT.
C25_NotInIsNotIn ==
    /\ (pc = "filtered" /\ cls = Basic) =>
           \A i \in NotInClauses : \A k \in DOMAIN filtered :
               ~ValueInList(GetEventFieldValueBasic(filtered[k],
                                                    client_filters[i].field),
                            client_filters[i].values)
    /\ (/\ pc = "constructed"
        /\ cls = Basic
        /\ expression =
               Clause("area", "eq", S("1"))
                   \o <<" ", "AND", " ", "NOT", " ">>
                   \o Clause("genre", "in", <<"jazz", ",", "ambient">>))
           => client_filters =
                  <<[field |-> S("genre"), operator |-> S("in"),
                     values |-> <<S("jazz"), S("ambient")>>,
                     logical_op |-> "NOT"]>>

\* the plan as its constructor left it
Constructed == NewPlan(cls, expression)

\* C21: once the plan is constructed, no step of a fetch_all_events or
\* apply_client_filters call changes graphql_filters or client_filters.
C21_FiltersNeverChange ==
    [][pc # "new" => /\ graphql_filters' = graphql_filters
                     /\ client_filters' = client_filters]_vars

\* fetch_all_events of a fetcher that no other call touches, from its
\* constructed plan
FetchAlone ==
    LET cf == Constructed.cf
        special == IF cls = Advanced
                   THEN SelectSeq(cf, NeedsSpecialHandling) ELSE <<>>
        other == SelectSeq(cf, LAMBDA c : ~NeedsSpecialHandling(c))
        data == SpecialHandling(upstream, special)
        fetched == FetchAllEventsV2(upstream)
        applied == IF cls = Advanced THEN other ELSE cf
    IN  IF data.raised THEN Raised
        ELSE IF data.handled THEN Returned(data.events, data.bumps)
        ELSE IF fetched.raised THEN Raised
        ELSE Returned(Filter(cls, applied, fetched.events),
                      Filter(cls, applied, fetched.bumps))

\* C22: whatever the interleaving of the calls that share the plan, each
\* fetch_all_events call ends as it ends when run alone, apply_client_filters
\* returns what the constructed plan keeps, and client_filters is as
\* constructed once no call is in progress.
C22_SharedPlanSameResults ==
    /\ \A t \in DOMAIN frames :
           /\ frames[t].pc = "done" =>
                  Returned(frames[t].all_events, frames[t].all_bumps)
                      = FetchAlone
           /\ frames[t].pc = "raised" => FetchAlone.raised
    /\ pc = "filtered" => filtered = Filter(cls, Constructed.cf, events)
    /\ (/\ pc \notin {"new", "raised"}
        /\ \A t \in DOMAIN frames : frames[t].pc \in {"idle", "done", "raised"})
           => client_filters = Constructed.cf

\* the constructed client clauses that get no special handling
OtherClauses == SelectSeq(Constructed.cf, LAMBDA c : ~NeedsSpecialHandling(c))

\* C23: every event and every bump that fetch_all_events of
\* advanced_event_fetcher returns satisfies each client clause of the
\* expression that is not specially handled, also when the expression has a
\* specially handled clause.
C23_FetchedSatisfyOtherClauses ==
    \A t \in DOMAIN frames :
        (cls = Advanced /\ frames[t].pc = "done") =>
            \A c \in Range(OtherClauses) :
                \A e \in Range(frames[t].all_events)
                         \cup Range(frames[t].all_bumps) :
                    ClauseTrue(c, e)

\* C26: the payload of a constructed fetcher restricts areas to the
\* constructor's areas, listingDate to the constructor's gte (and lte), and
\* every field by a descriptor with one operator key.
C26_PayloadKeepsBase ==
    pc \notin {"new", "raised"} =>
        /\ payload.filters[S("areas")] = ("eq" :> fetcher.areas)
        /\ payload.filters[S("listingDate")]
               = BaseFilters(fetcher)[S("listingDate")]
        /\ \A field \in DOMAIN payload.filters \ {S("listingDate")} :
               Cardinality(DOMAIN payload.filters[field]) = 1

\* the page came back with an event or a bump
NonEmptyPage(p) ==
    LET result == GetEvents(upstream, p)
    IN  ~result.raised /\ (result.events # <<>> \/ result.bumps # <<>>)

\* C27: the pages a fetch_all_events call has requested are 1, 2, ..., n in
\* this order with n at most 50; every page before the last came back with
\* an event or a bump; the loop goes on only below the limit, and it is left
\* (without an exception) only after an empty page or after page 50.
C27_PagesInOrderAndBounded ==
    \A t \in DOMAIN frames :
        LET requested == frames[t].requested
            n == Len(requested)
        IN  /\ \A i \in DOMAIN requested : requested[i] = i
            /\ n <= PageLimit
            /\ \A i \in 1..(n - 1) : NonEmptyPage(i)
            /\ frames[t].pc \in {"get_events", "post"} =>
                   /\ n < PageLimit
                   /\ frames[t].page = n + 1
            /\ frames[t].pc \in {"apply", "restore"} =>
                   /\ n >= 1
                   /\ ~NonEmptyPage(n) \/ n = PageLimit

\* C27 witness: the upstream API has more than 50 pages and the loop was
\* left after page 50, with the 50 records collected.
C27_Witness ==
    \E t \in DOMAIN frames :
        /\ frames[t].pc = "apply"
        /\ upstream.more = PageLimit + 1
        /\ Len(frames[t].requested) = PageLimit
        /\ Len(frames[t].all_events) = PageLimit

\* C28: a get_events call whose request fails upstream ends without an
\* exception and with an empty page: the loop is left with the events and
\* bumps of the earlier pages.
C28_FailedPageEndsTheLoop ==
    [][\A t \in DOMAIN frames :
           (/\ frames[t].pc = "post"
            /\ frames'[t] # frames[t]
            /\ ResponseKind(upstream, payload.page) # "ok")
               => /\ frames'[t].pc = "apply"
                  /\ frames'[t].all_events = frames[t].all_events
                  /\ frames'[t].all_bumps = frames[t].all_bumps]_vars

\* the entries of results and errors that carry the query index k
EntriesOf(k) ==
    Cardinality({j \in DOMAIN batch.results :
                     batch.results[j].query_index = k})
        + Cardinality({j \in DOMAIN batch.errors :
                           batch.errors[j].query_index = k})

\* C29: a /v3/events/batch request with more than 20 queries is answered
\* 400 with no query processed; in every other request each query index
\* the loop has passed has exactly one entry, in results or in errors, the
\* response is built only when the loop has passed every query, and its
\* successful_queries and failed_queries add up to requested_queries.
C29_OneEntryPerQuery ==
    /\ Len(batch.queries) > MaxQueries =>
           /\ batch.i = 0
           /\ batch.results = <<>>
           /\ batch.errors = <<>>
           /\ batch.pc = "responded" => batch.code = 400
    /\ \A k \in 0..(batch.i - 1) : EntriesOf(k) = 1
    /\ Len(batch.results) + Len(batch.errors) = batch.i
    /\ batch.code = 200 =>
           /\ batch.i = Len(batch.queries)
           /\ batch.batch_info.requested_queries = Len(batch.queries)
           /\ batch.batch_info.successful_queries = Len(batch.results)
           /\ batch.batch_info.failed_queries = Len(batch.errors)
           /\ batch.batch_info.successful_queries
                  + batch.batch_info.failed_queries
                  = batch.batch_info.requested_queries

\* C29 witness: a request with 20 queries was answered, and a query that
\* follows a failed one has its entry in results.
C29_Witness ==
    /\ batch.code = 200
    /\ Len(batch.queries) = MaxQueries
    /\ \E e \in DOMAIN batch.errors : \E r \in DOMAIN batch.results :
           batch.results[r].query_index > batch.errors[e].query_index

\* C30: when no refresh_cache call is in progress, every key of the memory
\* cache maps to the area_id of its row in the database, and a
\* refresh_cache call that reported 'success' left the timestamp of the
\* module committed in cache_metadata and nothing uncommitted.
C30_MemoryAgreesWithDatabase ==
    cache.refresh.pc # "areas" =>
        /\ \A key \in DOMAIN cache.area_cache :
               \E row \in DOMAIN cache.rows :
                   /\ CacheKey(row[1], row[2]) = key
                   /\ cache.rows[row] = cache.area_cache[key]
        /\ cache.refresh.status = "success" =>
               cache.metadata = cache.last_full_refresh

====
